---------------------------- MODULE Spec2Model ----------------------------
(***************************************************************************)
(* Model of the deterministic labelling and evaluation logic of the        *)
(* cybersecurity ABSA pipeline (cybersecurity_absa/src):                   *)
(*   create_cybersecurity_atepc_dataset.py  aspect matcher, sentiment      *)
(*                                          window classifier, IOB tag     *)
(*                                          builder, splitter/writer       *)
(*   evaluate_model.py                      checkpoint selector, tagged    *)
(*                                          file parser, batch evaluator   *)
(*   run_pyabsa_custom.py                   find_custom_model              *)
(* Texts, file contents and directory names are sequences of one-character *)
(* strings, so that splitting, joining, slicing, regex matching and        *)
(* substring tests are computed as the Python code computes them.          *)
(***************************************************************************)
EXTENDS Integers, Sequences, FiniteSets, TLC

(***************************************************************************)
(* Characters and Python string primitives                                 *)
(***************************************************************************)

\* str.lower() / re.IGNORECASE on the ASCII letters
ToLower ==
  ("A" :> "a") @@ ("B" :> "b") @@ ("C" :> "c") @@ ("D" :> "d") @@ ("E" :> "e") @@
  ("F" :> "f") @@ ("G" :> "g") @@ ("H" :> "h") @@ ("I" :> "i") @@ ("J" :> "j") @@
  ("K" :> "k") @@ ("L" :> "l") @@ ("M" :> "m") @@ ("N" :> "n") @@ ("O" :> "o") @@
  ("P" :> "p") @@ ("Q" :> "q") @@ ("R" :> "r") @@ ("S" :> "s") @@ ("T" :> "t") @@
  ("U" :> "u") @@ ("V" :> "v") @@ ("W" :> "w") @@ ("X" :> "x") @@ ("Y" :> "y") @@
  ("Z" :> "z")

LowerChar(c) == IF c \in DOMAIN ToLower THEN ToLower[c] ELSE c

\* s.lower()
Lower(s) == [i \in 1..Len(s) |-> LowerChar(s[i])]

\* characters for which str.isspace() holds (str.split(), str.strip(), \s)
Whitespace == {" ", "\t", "\n", "\r", "\f"}

IsSpace(c) == c \in Whitespace

Digits == {"0", "1", "2", "3", "4", "5", "6", "7", "8", "9"}

\* the regex class \w: letters, digits and underscore
IsWordChar(c) ==
  \/ c \in DOMAIN ToLower
  \/ c \in {ToLower[u] : u \in DOMAIN ToLower}
  \/ c \in Digits
  \/ c = "_"

Min(a, b) == IF a <= b THEN a ELSE b

Max(a, b) == IF a >= b THEN a ELSE b

\* s[a:b] with 0 <= a (Python slice, 0-based, end exclusive, clamped)
Slice(s, a, b) == SubSeq(s, a + 1, Min(b, Len(s)))

Range(s) == {s[i] : i \in DOMAIN s}

\* the elements of a finite set of integers in ascending order
SeqOfSet(S) ==
  LET rank == [i \in S |-> Cardinality({j \in S : j <= i})]
  IN  [k \in 1..Cardinality(S) |-> CHOOSE i \in S : rank[i] = k]

\* the concatenation of a sequence of sequences (halving keeps evaluation shallow)
RECURSIVE Flatten(_)
Flatten(seqs) ==
  IF seqs = <<>> THEN <<>>
  ELSE IF Len(seqs) = 1 THEN seqs[1]
  ELSE LET h == Len(seqs) \div 2
       IN  Flatten(SubSeq(seqs, 1, h)) \o Flatten(SubSeq(seqs, h + 1, Len(seqs)))

\* s.split(): the maximal runs of non-whitespace characters
Split(s) ==
  LET starts == SeqOfSet({i \in 1..Len(s) : ~IsSpace(s[i]) /\ (i = 1 \/ IsSpace(s[i - 1]))})
      ends   == SeqOfSet({i \in 1..Len(s) : ~IsSpace(s[i]) /\ (i = Len(s) \/ IsSpace(s[i + 1]))})
  IN  [k \in 1..Len(starts) |-> SubSeq(s, starts[k], ends[k])]

\* sep.join(parts)
Join(parts, sep) ==
  Flatten([k \in 1..Len(parts) |-> IF k = 1 THEN parts[1] ELSE sep \o parts[k]])

\* s.strip()
Strip(s) ==
  LET solid == {i \in 1..Len(s) : ~IsSpace(s[i])}
  IN  IF solid = {} THEN <<>>
      ELSE SubSeq(s, CHOOSE i \in solid : \A j \in solid : i <= j,
                     CHOOSE i \in solid : \A j \in solid : i >= j)

\* w in s (substring test)
IsSubstring(w, s) ==
  \E p \in 0..(Len(s) - Len(w)) : \A i \in 1..Len(w) : s[p + i] = w[i]

\* s.startswith(w)
StartsWith(s, w) == Len(w) <= Len(s) /\ SubSeq(s, 1, Len(w)) = w

(***************************************************************************)
(* Aspect Pattern Matcher: extract_aspects_from_text                       *)
(***************************************************************************)

\* the catalog: one entry per regex r'\b(a1|a2|...)\b', alternatives in order
aspect_patterns ==
  << << <<"v","u","l","n","e","r","a","b","i","l","i","t","y">>, <<"v","u","l","n","e","r","a","b","i","l","i","t","i","e","s">> >>,
     << <<"e","x","p","l","o","i","t">>, <<"e","x","p","l","o","i","t","s">>, <<"e","x","p","l","o","i","t","i","n","g">> >>,
     << <<"m","a","l","w","a","r","e">>, <<"v","i","r","u","s","e","s">>, <<"t","r","o","j","a","n","s">>, <<"r","a","n","s","o","m","w","a","r","e">>, <<"s","p","y","w","a","r","e">> >>,
     << <<"p","h","i","s","h","i","n","g">>, <<"p","h","i","s","h">> >>,
     << <<"d","a","t","a"," ","b","r","e","a","c","h">>, <<"d","a","t","a"," ","l","e","a","k">>, <<"i","n","f","o","r","m","a","t","i","o","n"," ","l","e","a","k">> >>,
     << <<"D","d","o","s">>, <<"D","D","o","S">>, <<"d","e","n","i","a","l"," ","o","f"," ","s","e","r","v","i","c","e">> >>,
     << <<"f","i","r","e","w","a","l","l">>, <<"f","i","r","e","w","a","l","l","s">> >>,
     << <<"a","n","t","i","v","i","r","u","s">>, <<"a","n","t","i","-","v","i","r","u","s">> >>,
     << <<"e","n","c","r","y","p","t","i","o","n">>, <<"e","n","c","r","y","p","t">> >>,
     << <<"a","u","t","h","e","n","t","i","c","a","t","i","o","n">>, <<"a","u","t","h","e","n","t","i","c","a","t","i","n","g">> >>,
     << <<"a","u","t","h","o","r","i","z","a","t","i","o","n">>, <<"a","u","t","h","o","r","i","z","i","n","g">> >>,
     << <<"p","a","s","s","w","o","r","d">>, <<"p","a","s","s","w","o","r","d","s">> >>,
     << <<"p","a","t","c","h">>, <<"p","a","t","c","h","e","s">>, <<"p","a","t","c","h","i","n","g">> >>,
     << <<"u","p","d","a","t","e">>, <<"u","p","d","a","t","e","s">>, <<"u","p","d","a","t","i","n","g">> >>,
     << <<"b","a","c","k","u","p">>, <<"b","a","c","k","u","p","s">> >>,
     << <<"n","e","t","w","o","r","k">>, <<"n","e","t","w","o","r","k","s">> >>,
     << <<"s","e","r","v","e","r">>, <<"s","e","r","v","e","r","s">> >>,
     << <<"d","a","t","a","b","a","s","e">>, <<"d","a","t","a","b","a","s","e","s">> >>,
     << <<"s","y","s","t","e","m">>, <<"s","y","s","t","e","m","s">> >>,
     << <<"s","e","c","u","r","i","t","y">>, <<"s","e","c","u","r","e">> >>,
     << <<"t","h","r","e","a","t">>, <<"t","h","r","e","a","t","s">> >>,
     << <<"a","t","t","a","c","k">>, <<"a","t","t","a","c","k","s">>, <<"a","t","t","a","c","k","i","n","g">> >>,
     << <<"d","e","f","e","n","s","e">>, <<"d","e","f","e","n","s","e","s">>, <<"d","e","f","e","n","d","i","n","g">> >>,
     << <<"p","r","o","t","e","c","t","i","o","n">>, <<"p","r","o","t","e","c","t","i","n","g">> >>,
     << <<"d","e","t","e","c","t","i","o","n">>, <<"d","e","t","e","c","t","i","n","g">> >>,
     << <<"p","r","e","v","e","n","t","i","o","n">>, <<"p","r","e","v","e","n","t","i","n","g">> >>,
     << <<"r","e","s","p","o","n","s","e">>, <<"r","e","s","p","o","n","d","i","n","g">> >>,
     << <<"r","e","c","o","v","e","r","y">>, <<"r","e","c","o","v","e","r","i","n","g">> >>,
     << <<"i","n","c","i","d","e","n","t">>, <<"i","n","c","i","d","e","n","t","s">> >>,
     << <<"b","r","e","a","c","h">>, <<"b","r","e","a","c","h","e","s">> >>,
     << <<"i","n","t","r","u","s","i","o","n">>, <<"i","n","t","r","u","s","i","o","n","s">> >>,
     << <<"c","o","m","p","r","o","m","i","s","e">>, <<"c","o","m","p","r","o","m","i","s","e","d">> >>,
     << <<"h","a","c","k","e","r">>, <<"h","a","c","k","e","r","s">>, <<"h","a","c","k","i","n","g">> >>,
     << <<"c","y","b","e","r","a","t","t","a","c","k">>, <<"c","y","b","e","r","a","t","t","a","c","k","s">> >> >>

\* \b at offset p: exactly one of text[p-1], text[p] is a word character
WordBoundary(text, p) ==
  LET before == p >= 1 /\ IsWordChar(text[p])
      after  == p < Len(text) /\ IsWordChar(text[p + 1])
  IN  before # after

\* does \b alt \b match at offset p (re.IGNORECASE)
AltMatchesAt(text, alt, p) ==
  /\ p + Len(alt) <= Len(text)
  /\ LowerChar(text[p + 1]) = LowerChar(alt[1])
  /\ \A i \in 1..Len(alt) : LowerChar(text[p + i]) = LowerChar(alt[i])
  /\ WordBoundary(text, p)
  /\ WordBoundary(text, p + Len(alt))

\* the end offset of the regex match at offset p: the first alternative, in
\* order, for which the whole of \b(...)\b matches; -1 when none does
RECURSIVE MatchEndAt(_, _, _, _)
MatchEndAt(text, pattern, p, a) ==
  IF a > Len(pattern) THEN -1
  ELSE IF AltMatchesAt(text, pattern[a], p) THEN p + Len(pattern[a])
  ELSE MatchEndAt(text, pattern, p, a + 1)

\* re.finditer(pattern, text, re.IGNORECASE) from offset p on: leftmost,
\* non-overlapping matches as (match.group().lower(), start, end)
RECURSIVE FindIter(_, _, _)
FindIter(text, pattern, p) ==
  LET hits == {q \in p..(Len(text) - 1) : MatchEndAt(text, pattern, q, 1) # -1}
  IN  IF hits = {} THEN <<>>
      ELSE LET s == CHOOSE q \in hits : \A r \in hits : q <= r
               e == MatchEndAt(text, pattern, s, 1)
           IN  << <<Lower(Slice(text, s, e)), s, e>> >> \o FindIter(text, pattern, e)

\* the loop of lines 58-62: all matches of all patterns, in catalog order
AllMatches(text) ==
  Flatten([k \in 1..Len(aspect_patterns) |-> FindIter(text, aspect_patterns[k], 0)])

\* the candidates left in the order of the catalog
CatalogOrder(aspects) == aspects

\* insert x behind every element whose key is <= x's key (stable)
RECURSIVE InsertByStart(_, _)
InsertByStart(sorted, x) ==
  IF sorted = <<>> THEN <<x>>
  ELSE IF sorted[1][2] <= x[2] THEN <<sorted[1]>> \o InsertByStart(Tail(sorted), x)
  ELSE <<x>> \o sorted

\* sorted(aspects, key=lambda x: x[1])
RECURSIVE SortedByStart(_)
SortedByStart(aspects) ==
  IF aspects = <<>> THEN <<>>
  ELSE InsertByStart(SortedByStart(SubSeq(aspects, 1, Len(aspects) - 1)),
                     aspects[Len(aspects)])

\* a filter that keeps every candidate
KeepOverlaps(aspects, kept) == aspects

\* the overlap filter of lines 66-69
RECURSIVE RemoveOverlaps(_, _)
RemoveOverlaps(aspects, kept) ==
  IF aspects = <<>> THEN kept
  ELSE IF kept = <<>> \/ kept[Len(kept)][3] <= aspects[1][2]
    THEN RemoveOverlaps(Tail(aspects), Append(kept, aspects[1]))
    ELSE RemoveOverlaps(Tail(aspects), kept)

extract_aspects_from_text(text) ==
  RemoveOverlaps(SortedByStart(AllMatches(text)), <<>>)

(***************************************************************************)
(* Sentiment Window Classifier: assign_sentiment_to_aspect                 *)
(***************************************************************************)

window_size == 20

positive_words ==
  << <<"e","f","f","e","c","t","i","v","e">>, <<"r","o","b","u","s","t">>, <<"s","e","c","u","r","e">>,
     <<"p","r","o","t","e","c","t","e","d">>, <<"s","a","f","e">>, <<"s","t","r","o","n","g">>,
     <<"r","e","l","i","a","b","l","e">>, <<"s","u","c","c","e","s","s","f","u","l">>, <<"i","m","p","r","o","v","e","d">>,
     <<"e","n","h","a","n","c","e","d">>, <<"f","i","x","e","d">>, <<"r","e","s","o","l","v","e","d">>,
     <<"p","r","e","v","e","n","t","e","d">>, <<"b","l","o","c","k","e","d">>, <<"d","e","t","e","c","t","e","d">>,
     <<"m","i","t","i","g","a","t","e","d">>, <<"r","e","s","t","o","r","e","d">> >>

negative_words ==
  << <<"v","u","l","n","e","r","a","b","l","e">>, <<"c","o","m","p","r","o","m","i","s","e","d">>, <<"b","r","e","a","c","h","e","d">>,
     <<"a","t","t","a","c","k","e","d">>, <<"f","a","i","l","e","d">>, <<"w","e","a","k">>,
     <<"e","x","p","l","o","i","t","e","d">>, <<"i","n","f","e","c","t","e","d">>, <<"c","o","r","r","u","p","t","e","d">>,
     <<"l","o","s","t">>, <<"s","t","o","l","e","n">>, <<"u","n","a","u","t","h","o","r","i","z","e","d">>,
     <<"m","a","l","i","c","i","o","u","s">>, <<"d","a","n","g","e","r","o","u","s">>, <<"r","i","s","k","y">>,
     <<"i","n","s","e","c","u","r","e">>, <<"d","i","s","r","u","p","t","e","d">>, <<"d","o","w","n">>,
     <<"u","n","a","v","a","i","l","a","b","l","e">>, <<"c","r","a","s","h","e","d">>, <<"h","a","c","k","e","d">>,
     <<"e","n","c","r","y","p","t","e","d">>, <<"i","n","a","c","c","e","s","s","i","b","l","e">>, <<"s","t","a","n","d","s","t","i","l","l">>,
     <<"d","i","s","a","s","t","e","r">>, <<"f","a","i","l","u","r","e">>, <<"s","a","b","o","t","a","g","e","d">> >>


\* lines 78-91: the context string around the aspect
ContextWindow(text, aspect_start, aspect_end) ==
  LET words          == Split(text)
      start_word_idx == Len(Split(Slice(text, 0, aspect_start)))
      end_word_idx   == start_word_idx + Len(Split(Slice(text, aspect_start, aspect_end)))
      context_start  == Max(0, start_word_idx - window_size)
      context_end    == Min(Len(words), end_word_idx + window_size)
  IN  Join(Slice(words, context_start, context_end), <<" ">>)

\* a count of the keywords that are whole words of the context
KeywordCountWholeWords(word_list, context) ==
  LET ws == Range(Split(Lower(context)))
  IN  Cardinality({k \in 1..Len(word_list) : Lower(word_list[k]) \in ws})

\* a count that looks for the keywords in the first token of the context only
KeywordCountLeading(word_list, context) ==
  LET lead == IF Split(context) = <<>> THEN <<>> ELSE Lower(Split(context)[1])
  IN  Cardinality({k \in 1..Len(word_list) : IsSubstring(Lower(word_list[k]), lead)})

\* sum(1 for word in word_list if word.lower() in context.lower())
KeywordCount(word_list, context) ==
  LET lc == Lower(context)
  IN  Cardinality({k \in 1..Len(word_list) : IsSubstring(Lower(word_list[k]), lc)})

positive_count(text, aspect_start, aspect_end) ==
  KeywordCount(positive_words, ContextWindow(text, aspect_start, aspect_end))

negative_count(text, aspect_start, aspect_end) ==
  KeywordCount(negative_words, ContextWindow(text, aspect_start, aspect_end))

\* a vote that resolves ties to Positive
VoteTiesPositive(pos, neg) ==
  IF pos >= neg THEN "Positive" ELSE "Negative"

\* lines 113-120: the vote
Vote(pos, neg) ==
  IF pos > neg THEN "Positive"
  ELSE IF neg > pos THEN "Negative"
  ELSE "Neutral"

\* a classifier that also counts the keywords of the aspect argument
AssignSentimentUsingAspect(text, aspect, aspect_start, aspect_end) ==
  Vote(positive_count(text, aspect_start, aspect_end) + KeywordCount(positive_words, aspect),
       negative_count(text, aspect_start, aspect_end) + KeywordCount(negative_words, aspect))

assign_sentiment_to_aspect(text, aspect, aspect_start, aspect_end) ==
  Vote(positive_count(text, aspect_start, aspect_end),
       negative_count(text, aspect_start, aspect_end))

\* re.sub(r'\s+', ' ', text).strip()
CollapseSpaces(s) ==
  LET kept == SeqOfSet({i \in 1..Len(s) : ~(IsSpace(s[i]) /\ i > 1 /\ IsSpace(s[i - 1]))})
  IN  [k \in 1..Len(kept) |-> IF IsSpace(s[kept[k]]) THEN " " ELSE s[kept[k]]]

clean_text(text) == Strip(CollapseSpaces(text))

(***************************************************************************)
(* int(0.7 * len(df)) and int(0.15 * len(df)): IEEE-754 double arithmetic  *)
(* Numbers wider than 31 bits are little-endian sequences of 16-bit limbs. *)
(***************************************************************************)

LimbBase == 65536

\* the double 0.7 is 0x16666666666666 * 2^-53
Double07 == [sig |-> <<26214, 26214, 26214, 22>>, exp |-> 53]

\* the double 0.15 is 0x13333333333333 * 2^-55
Double015 == [sig |-> <<13107, 13107, 13107, 19>>, exp |-> 55]

\* limbs * n + carry, exact
RECURSIVE MulLimbs(_, _, _)
MulLimbs(limbs, n, carry) ==
  IF limbs = <<>>
    THEN (IF carry = 0 THEN <<>>
          ELSE <<carry % LimbBase>> \o MulLimbs(<<>>, n, carry \div LimbBase))
    ELSE LET v == limbs[1] * n + carry
         IN  <<v % LimbBase>> \o MulLimbs(Tail(limbs), n, v \div LimbBase)

\* the bits of a limb sequence, least significant first
BitsOf(limbs) ==
  [i \in 1..(16 * Len(limbs)) |->
     (limbs[((i - 1) \div 16) + 1] \div (2 ^ ((i - 1) % 16))) % 2]

BitLength(bits) ==
  IF \A i \in 1..Len(bits) : bits[i] = 0 THEN 0
  ELSE CHOOSE i \in 1..Len(bits) : bits[i] = 1 /\ \A j \in (i + 1)..Len(bits) : bits[j] = 0

RECURSIVE BitsToNat(_)
BitsToNat(bits) ==
  IF bits = <<>> THEN 0 ELSE bits[1] + 2 * BitsToNat(Tail(bits))

\* int(d * n) for a double d = sig * 2^-exp and an integer 0 <= n < 2^15:
\* the exact product is rounded to 53 significant bits (round half to even)
\* and int() truncates the rounded value
IntOfProduct(d, n) ==
  LET P == BitsOf(MulLimbs(d.sig, n, 0))
      L == BitLength(P)
      k == L - 53
  IN  IF k <= 0 THEN BitsToNat(SubSeq(P, d.exp + 1, L))
      ELSE LET tail    == SubSeq(P, 1, k)
               head    == SubSeq(P, k + 1, L)
               roundUp == tail[k] = 1 /\ ((\E i \in 1..(k - 1) : tail[i] = 1) \/ head[1] = 1)
               carry   == roundUp /\ \A i \in 1..(d.exp - k) : head[i] = 1
           IN  BitsToNat(SubSeq(head, d.exp - k + 1, 53)) + (IF carry THEN 1 ELSE 0)

(***************************************************************************)
(* Tagged-file writer and reader                                           *)
(***************************************************************************)

TagO == <<"O">>

TagB == <<"B", "-", "A", "S", "P">>

TagI == <<"I", "-", "A", "S", "P">>

\* label_map = {'Positive': '1', 'Neutral': '0', 'Negative': '-1'}
label_map ==
  ("Positive" :> <<"1">>) @@ ("Neutral" :> <<"0">>) @@ ("Negative" :> <<"-", "1">>)

\* a search that answers token 0 when no token run equals the aspect text
FirstRunOrStart(toks, aspect_text) ==
  LET n    == Len(Split(aspect_text))
      runs == {i \in 0..(Len(toks) - 1) :
                 Lower(Join(Slice(toks, i, i + n), <<" ">>)) = Lower(aspect_text)}
  IN  IF runs = {} THEN 0 ELSE CHOOSE i \in runs : \A j \in runs : i <= j

\* the index (0-based) of the first token run whose joined, lowercased form
\* equals the aspect text; -1 when the loop of lines 195-214 finds none
FirstRun(toks, aspect_text) ==
  LET n    == Len(Split(aspect_text))
      runs == {i \in 0..(Len(toks) - 1) :
                 Lower(Join(Slice(toks, i, i + n), <<" ">>)) = Lower(aspect_text)}
  IN  IF runs = {} THEN -1 ELSE CHOOSE i \in runs : \A j \in runs : i <= j

\* a tagger that writes I-ASP on the first token of the run, too
TagRunInsideOnly(tags, i, n) ==
  [t \in 1..Len(tags) |-> IF t >= i + 1 /\ t <= i + n THEN TagI ELSE tags[t]]

\* lines 198-202: B-ASP on token i, I-ASP on the following n-1 tokens
TagRun(tags, i, n) ==
  [t \in 1..Len(tags) |->
     IF t = i + 1 THEN TagB
     ELSE IF t > i + 1 /\ t <= i + n THEN TagI
     ELSE tags[t]]

\* a labeller that writes the label on the first token of the run only
LabelRunFirstOnly(labels, i, n, sentiment_num) ==
  [t \in 1..Len(labels) |-> IF t = i + 1 THEN sentiment_num ELSE labels[t]]

\* a labeller that writes the label on every token of the sentence
LabelWholeSentence(labels, i, n, sentiment_num) ==
  [t \in 1..Len(labels) |-> sentiment_num]

\* lines 209-211: the sentiment label on every token of the run
LabelRun(labels, i, n, sentiment_num) ==
  [t \in 1..Len(labels) |->
     IF t >= i + 1 /\ t <= i + n THEN sentiment_num ELSE labels[t]]

\* a writer that leaves out the blank line behind the sentence
SentenceBlockUnterminated(toks, tags, labels) ==
  Flatten([t \in 1..Min(Len(toks), Min(Len(tags), Len(labels))) |->
             toks[t] \o <<" ">> \o tags[t] \o <<" ">> \o labels[t] \o <<"\n">>])

\* lines 219-223: one "token tag label\n" line per token, then "\n"
SentenceBlock(toks, tags, labels) ==
  Flatten([t \in 1..Min(Len(toks), Min(Len(tags), Len(labels))) |->
             toks[t] \o <<" ">> \o tags[t] \o <<" ">> \o labels[t] \o <<"\n">>])
  \o <<"\n">>

\* "for line in f" in text mode: the lines of the file, terminators removed
\* (universal newlines: "\n", "\r" and "\r\n" all end a line)
\* (the "\r" of a "\r\n" pair stays at the end of its line, where strip() drops it)
ReadLines(content) ==
  LET n     == Len(content)
      ends  == SeqOfSet({i \in 1..n : \/ content[i] = "\n"
                                      \/ content[i] = "\r" /\ ~(i < n /\ content[i + 1] = "\n")})
      from(k) == IF k = 1 THEN 1 ELSE ends[k - 1] + 1
      last  == IF ends = <<>> THEN 0 ELSE ends[Len(ends)]
  IN  [k \in 1..Len(ends) |-> SubSeq(content, from(k), ends[k] - 1)]
      \o (IF last < n THEN <<SubSeq(content, last + 1, n)>> ELSE <<>>)

\* the loop of parse_iob_file over the lines, lines 25-39: a sentence is closed
\* by a blank line, or by the end of the file; its words are the first fields
ParseLines(lines) ==
  LET solid(l) == Strip(lines[l]) # <<>>
      starts == SeqOfSet({l \in 1..Len(lines) : solid(l) /\ (l = 1 \/ ~solid(l - 1))})
      ends   == SeqOfSet({l \in 1..Len(lines) : solid(l) /\ (l = Len(lines) \/ ~solid(l + 1))})
  IN  [k \in 1..Len(starts) |->
         Join([l \in 1..(ends[k] - starts[k] + 1) |->
                 Split(Strip(lines[starts[k] + l - 1]))[1]], <<" ">>)]

parse_iob_file(content) == ParseLines(ReadLines(content))

(***************************************************************************)
(* State                                                                   *)
(***************************************************************************)

VARIABLES
  pc,                 \* position of the running script
  csv,                \* create_atepc_dataset: the clean_text column of input_file
  sample_size,        \* create_atepc_dataset: the sample_size argument
  df,                 \* the retained rows (cleaned, filtered, sampled)
  train_size,         \* int(0.7 * len(df))
  val_size,           \* int(0.15 * len(df))
  split_idx,          \* 1 train, 2 valid, 3 test: the split being written
  row_idx,            \* number of rows of the split already handled
  text,               \* the row in progress
  aspects,            \* extract_aspects_from_text(text)
  tokens,             \* text.split()
  iob_tags,           \* one tag per token
  sent_labels,        \* one sentiment label per token
  aspect_idx,         \* index of the next aspect match to apply
  files,              \* content of <split>.dat.atepc, per split
  written,            \* token sequences of the blocks written, per split
  valid_samples,      \* counters of the split being written
  skipped_short_text,
  skipped_no_aspects,
  reported,           \* the counters printed at the end of each split
  readme,             \* the sizes written to readme.txt
  parsed_split,       \* the split file handed to parse_iob_file
  sentences,          \* the list parse_iob_file returned
  calls,              \* assign_sentiment_to_aspect calls: arguments, counts, label
  checkpoints_exists, \* does <project_root>/checkpoints exist
  listing,            \* checkpoints_dir.iterdir(), in the order the OS lists it
  selector,           \* which script selected a checkpoint
  outcome,            \* how the selection ended
  best_checkpoint,    \* the directory name selected
  best_score,         \* the score reported for it
  failing,            \* positions of the sentences the predictor raises on
  predictor,          \* which mock predictor answers batch_predict
  batch_start,        \* the loop variable i of the batch loop
  all_results,        \* all_results of evaluate_model
  result_idx,         \* how many results the aggregation loop has taken
  summary,            \* the aggregates of lines 108-125
  report,             \* the content of evaluation_results_fixed.json
  earlier_report,     \* the content of evaluation_results.json
  evaluation_data,    \* analyze_errors: the report it loaded
  data,               \* request.get_json() of the request being served
  predictions,        \* what aspect_extractor.predict does for each text
  response,           \* the response sent, none before
  cwd,                \* run_project: the working directory of the process
  original_cwd,       \* run_project: os.getcwd() at the start of main
  script_idx,         \* run_project: position in scripts of the script at hand
  run_log             \* run_project: launches and exits of the scripts, in time order

dsVars == <<csv, sample_size, df, train_size, val_size, split_idx, row_idx, text,
            aspects, tokens, iob_tags, sent_labels, aspect_idx, files, written,
            valid_samples, skipped_short_text, skipped_no_aspects, reported,
            readme, parsed_split, sentences>>

selVars == <<checkpoints_exists, listing, selector, outcome, best_checkpoint, best_score>>

evalVars == <<failing, predictor, batch_start, all_results, result_idx, summary, report,
              earlier_report, evaluation_data>>

svcVars == <<data, predictions, response>>

runVars == <<cwd, original_cwd, script_idx, run_log>>

vars == <<pc, dsVars, calls, selVars, evalVars, svcVars, runVars>>

(***************************************************************************)
(* Bounds and inputs                                                       *)
(***************************************************************************)

\* longest generated text, in words
MaxWords == 3

\* most rows of a multi-row input
MaxRows == 13

\* most rows of an input that is down-sampled
MaxSampledRows == 5

\* most assign_sentiment_to_aspect calls in a sentiment-only run
MaxCalls == 3

\* create_atepc_dataset(input_file, output_dir, sample_size=1000)
DefaultSampleSize == 1000

\* sample sizes small enough for down-sampling to happen
SmallSampleSizes == {0, 2}

\* row counts at which 0.7 * N is not exact in double arithmetic
BigRowCounts == {90}

\* the words generated texts are built from
Pieces ==
  << <<"d","a","t","a">>,
     <<"b","r","e","a","c","h">>,
     <<"b","r","e","a","c","h",",">>,
     <<"c","y","b","e","r","-","a","t","t","a","c","k">>,
     <<"s","e","c","u","r","e">>,
     <<"h","a","c","k","e","d">> >>

\* hand-written rows (raw, before clean_text)
ExampleTexts ==
  << <<"t","h","e"," ","v","u","l","n","e","r","a","b","i","l","i","t","y"," ","w","a","s"," ","s","u","c","c","e","s","s","f","u","l","l","y"," ","m","i","t","i","g","a","t","e","d"," ","a","n","d"," ","r","e","s","o","l","v","e","d">>,
     <<" "," ","d","a","t","a"," "," ","b","r","e","a","c","h","\t","a","t"," ","t","h","e","\n","f","i","r","e","w","a","l","l"," "," ">>,
     <<"D","D","o","S"," ","A","t","t","a","c","k"," ","o","n"," ","t","h","e"," ","D","D","o","S"," ","s","e","r","v","e","r",".">>,
     <<"d","e","n","i","a","l"," ","o","f"," ","s","e","r","v","i","c","e"," ","a","t","t","a","c","k"," ","h","a","c","k","e","d">>,
     <<"a","n","t","i","-","v","i","r","u","s"," ","a","n","d"," ","a","n","t","i","v","i","r","u","s"," ","u","p","d","a","t","e","s">>,
     <<"n","o","t","h","i","n","g"," ","t","o"," ","r","e","p","o","r","t"," ","i","n"," ","h","e","r","e"," ","t","o","d","a","y">>,
     <<"a"," ","a"," ","a"," ","a"," ","a"," ","a"," ","a"," ","a"," ","a"," ","a"," ","a"," ","a"," ","a"," ","a"," ","a"," ","a"," ","a"," ","a"," ","a"," ","a"," ","a"," ","a"," ","h","a","c","k","e","d"," ","a","t","t","a","c","k"," ","b"," ","b"," ","b"," ","b"," ","b"," ","b"," ","b"," ","b"," ","b"," ","b"," ","b"," ","b"," ","b"," ","b"," ","b"," ","b"," ","b"," ","b"," ","b"," ","b"," ","b"," ","r","e","s","o","l","v","e","d"," ","s","e","c","u","r","e">>,
     <<"d","a","t","a"," ","b","r","e","a","c","h"," ","x"," ","x"," ","x"," ","x"," ","x"," ","x"," ","x"," ","x"," ","x"," ","x"," ","x"," ","x"," ","x"," ","x"," ","x"," ","x"," ","x"," ","x"," ","x"," ","x"," ","x"," ","h","a","c","k","e","d"," ","b","r","e","a","c","h">>,
     <<"d","a","t","a"," ","b","r","e","a","c","h"," ","a","f","t","e","r"," ","d","a","t","a"," ","b","r","e","a","c","h">>,
     <<"d","a","t","a"," ","b","r","e","a","c","h"," ","x"," ","x"," ","x"," ","x"," ","x"," ","x"," ","x"," ","x"," ","x"," ","x"," ","x"," ","x"," ","x"," ","x"," ","x"," ","x"," ","x"," ","x"," ","x"," ","x"," ","x"," ","h","a","c","k","e","d"," ","d","a","t","a"," ","b","r","e","a","c","h">>,
     <<"f","i","x","e","d"," ","x"," ","x"," ","x"," ","x"," ","x"," ","x"," ","x"," ","x"," ","x"," ","x"," ","x"," ","x"," ","x"," ","x"," ","x"," ","x"," ","x"," ","x"," ","x"," ","c","y","b","e","r","-","a","t","t","a","c","k"," ","t","h","e","n"," ","a","t","t","a","c","k">> >>

\* the rows of multi-row inputs are taken from this list in rotation
SplitCorpus ==
  << <<"t","i","n","y"," ","t","e","x","t">>,
     <<"f","i","r","e","w","a","l","l"," ","d","o","w","n">>,
     <<"n","o","t","h","i","n","g"," ","t","o"," ","s","e","e"," ","i","n"," ","h","e","r","e">>,
     <<"t","h","e"," ","s","e","r","v","e","r"," ","w","a","s"," ","h","a","c","k","e","d"," ","t","o","d","a","y">>,
     <<"d","a","t","a"," ","b","r","e","a","c","h"," ","a","n","d"," ","b","r","e","a","c","h"," ","f","i","x","e","d">>,
     <<"a"," ","s","e","c","u","r","e"," ","n","e","t","w","o","r","k",","," ","n","o"," ","a","t","t","a","c","k",".">> >>

\* texts of the sentiment-only runs
SentimentTexts ==
  << <<"t","h","e"," ","v","u","l","n","e","r","a","b","i","l","i","t","y"," ","w","a","s"," ","s","u","c","c","e","s","s","f","u","l","l","y"," ","m","i","t","i","g","a","t","e","d"," ","a","n","d"," ","r","e","s","o","l","v","e","d">>,
     <<"t","h","e"," ","s","e","r","v","e","r"," ","w","a","s"," ","h","a","c","k","e","d"," ","t","o","d","a","y">>,
     <<"f","i","r","e","w","a","l","l",":"," ","n","o"," ","c","h","a","n","g","e">>,
     <<"t","h","e"," ","s","e","r","v","e","r"," ","w","a","s"," ","h","a","c","k","e","d",","," ","t","h","e","n"," ","f","i","x","e","d">> >>

\* generated texts: one to MaxWords pieces joined by single spaces
GeneratedTexts ==
  {Join(ws, <<" ">>) : ws \in UNION {[1..k -> Range(Pieces)] : k \in 1..MaxWords}}

TagTexts == GeneratedTexts \cup Range(ExampleTexts)

\* n rows taken from SplitCorpus in rotation, starting behind entry off
RotatedRows(n, off) ==
  [i \in 1..n |-> SplitCorpus[((i - 1 + off) % Len(SplitCorpus)) + 1]]

(***************************************************************************)
(* create_atepc_dataset                                                    *)
(***************************************************************************)

SplitIds == 1..3

\* df['clean_text'].apply(clean_text), then df[df['clean_text'].str.len() > 10]
CleanAndFilter(rows) ==
  SelectSeq([i \in 1..Len(rows) |-> clean_text(rows[i])], LAMBDA t : Len(t) > 10)

\* df.sample(n=sample_size, random_state=42): n distinct rows in some order
Samples(rows, n) ==
  {[i \in 1..n |-> rows[sel[i]]] :
     sel \in {s \in [1..n -> 1..Len(rows)] : \A i, j \in 1..n : i # j => s[i] # s[j]}}

\* slices whose rows are taken back to front
SplitRowsReversed(rows, tsize, vsize, s) ==
  LET part == IF s = 1 THEN Slice(rows, 0, tsize)
              ELSE IF s = 2 THEN Slice(rows, tsize, tsize + vsize)
              ELSE Slice(rows, tsize + vsize, Len(rows))
  IN  [i \in 1..Len(part) |-> part[Len(part) + 1 - i]]

\* lines 154-156: the iloc slices
SplitRows(rows, tsize, vsize, s) ==
  IF s = 1 THEN Slice(rows, 0, tsize)
  ELSE IF s = 2 THEN Slice(rows, tsize, tsize + vsize)
  ELSE Slice(rows, tsize + vsize, Len(rows))

CurrentRows == SplitRows(df, train_size, val_size, split_idx)

NoRow ==
  /\ text' = <<>>
  /\ aspects' = <<>>
  /\ tokens' = <<>>
  /\ iob_tags' = <<>>
  /\ sent_labels' = <<>>
  /\ aspect_idx' = 0

\* lines 135-156: load, clean, filter, sample, size the splits
Prepare ==
  /\ pc = "start"
  /\ LET kept == CleanAndFilter(csv)
     IN  /\ df' \in (IF Len(kept) > sample_size THEN Samples(kept, sample_size) ELSE {kept})
         /\ train_size' = IntOfProduct(Double07, Len(df'))
         /\ val_size' = IntOfProduct(Double015, Len(df'))
  /\ pc' = "rows"
  /\ UNCHANGED <<csv, sample_size, split_idx, row_idx, text, aspects, tokens, iob_tags,
                 sent_labels, aspect_idx, files, written, valid_samples,
                 skipped_short_text, skipped_no_aspects, reported, readme,
                 parsed_split, sentences, calls, selVars, evalVars, svcVars, runVars>>

\* lines 174-176
SkipShortText ==
  /\ pc = "rows"
  /\ row_idx < Len(CurrentRows)
  /\ Len(CurrentRows[row_idx + 1]) < 20
  /\ skipped_short_text' = skipped_short_text + 1
  /\ row_idx' = row_idx + 1
  /\ UNCHANGED <<pc, csv, sample_size, df, train_size, val_size, split_idx, text, aspects,
                 tokens, iob_tags, sent_labels, aspect_idx, files, written,
                 valid_samples, skipped_no_aspects, reported, readme, parsed_split,
                 sentences, calls, selVars, evalVars, svcVars, runVars>>

\* a skip that leaves skipped_no_aspects as it is
SkipNoAspectsUncounted ==
  /\ pc = "rows"
  /\ row_idx < Len(CurrentRows)
  /\ Len(CurrentRows[row_idx + 1]) >= 20
  /\ extract_aspects_from_text(CurrentRows[row_idx + 1]) = <<>>
  /\ row_idx' = row_idx + 1
  /\ UNCHANGED <<pc, csv, sample_size, df, train_size, val_size, split_idx, text, aspects,
                 tokens, iob_tags, sent_labels, aspect_idx, files, written,
                 valid_samples, skipped_short_text, skipped_no_aspects, reported, readme,
                 parsed_split, sentences, calls, selVars, evalVars, svcVars, runVars>>

\* lines 178-182
SkipNoAspects ==
  /\ pc = "rows"
  /\ row_idx < Len(CurrentRows)
  /\ Len(CurrentRows[row_idx + 1]) >= 20
  /\ extract_aspects_from_text(CurrentRows[row_idx + 1]) = <<>>
  /\ skipped_no_aspects' = skipped_no_aspects + 1
  /\ row_idx' = row_idx + 1
  /\ UNCHANGED <<pc, csv, sample_size, df, train_size, val_size, split_idx, text, aspects,
                 tokens, iob_tags, sent_labels, aspect_idx, files, written,
                 valid_samples, skipped_short_text, reported, readme, parsed_split,
                 sentences, calls, selVars, evalVars, svcVars, runVars>>

\* lines 171-188: a row with aspects is tokenized, all tags O, all labels '0'
Tokenize ==
  /\ pc = "rows"
  /\ row_idx < Len(CurrentRows)
  /\ Len(CurrentRows[row_idx + 1]) >= 20
  /\ LET found == extract_aspects_from_text(CurrentRows[row_idx + 1])
     IN  /\ found # <<>>
         /\ aspects' = found
  /\ text' = CurrentRows[row_idx + 1]
  /\ tokens' = Split(text')
  /\ iob_tags' = [t \in 1..Len(tokens') |-> TagO]
  /\ sent_labels' = [t \in 1..Len(tokens') |-> <<"0">>]
  /\ aspect_idx' = 1
  /\ calls' = <<>>
  /\ pc' = "tagging"
  /\ UNCHANGED <<csv, sample_size, df, train_size, val_size, split_idx, row_idx, files,
                 written, valid_samples, skipped_short_text, skipped_no_aspects,
                 reported, readme, parsed_split, sentences, selVars, evalVars, svcVars, runVars>>

\* the record of one assign_sentiment_to_aspect call
SentimentCall(t, aspect, s, e) ==
  [text |-> t, aspect |-> aspect, aspect_start |-> s, aspect_end |-> e,
   positive_count |-> positive_count(t, s, e),
   negative_count |-> negative_count(t, s, e),
   label |-> assign_sentiment_to_aspect(t, aspect, s, e)]

\* lines 191-214: one iteration of the loop over the aspect matches
ApplyAspect ==
  /\ pc = "tagging"
  /\ aspect_idx <= Len(aspects)
  /\ LET aspect_text == aspects[aspect_idx][1]
         start_char  == aspects[aspect_idx][2]
         end_char    == aspects[aspect_idx][3]
         n           == Len(Split(aspect_text))
         i           == FirstRun(tokens, aspect_text)
     IN  IF i = -1
           THEN UNCHANGED <<iob_tags, sent_labels, calls>>
           ELSE LET call == SentimentCall(text, aspect_text, start_char, end_char)
                IN  /\ iob_tags' = TagRun(iob_tags, i, n)
                    /\ sent_labels' = LabelRun(sent_labels, i, n, label_map[call.label])
                    /\ calls' = Append(calls, call)
  /\ aspect_idx' = aspect_idx + 1
  /\ UNCHANGED <<pc, csv, sample_size, df, train_size, val_size, split_idx, row_idx, text,
                 aspects, tokens, files, written, valid_samples, skipped_short_text,
                 skipped_no_aspects, reported, readme, parsed_split, sentences, selVars, evalVars, svcVars, runVars>>

\* lines 218-225: the block is written and the sentence counted
WriteSentence ==
  /\ pc = "tagging"
  /\ aspect_idx > Len(aspects)
  /\ files' = [files EXCEPT ![split_idx] = @ \o SentenceBlock(tokens, iob_tags, sent_labels)]
  /\ written' = [written EXCEPT ![split_idx] = Append(@, tokens)]
  /\ valid_samples' = valid_samples + 1
  /\ row_idx' = row_idx + 1
  /\ NoRow
  /\ pc' = "rows"
  /\ UNCHANGED <<csv, sample_size, df, train_size, val_size, split_idx, skipped_short_text,
                 skipped_no_aspects, reported, readme, parsed_split, sentences, calls, selVars, evalVars, svcVars, runVars>>

\* lines 228-230 and the next turn of the loop of line 162
EndSplit ==
  /\ pc = "rows"
  /\ row_idx = Len(CurrentRows)
  /\ reported' = [reported EXCEPT ![split_idx] =
                    [valid_samples |-> valid_samples,
                     skipped_short_text |-> skipped_short_text,
                     skipped_no_aspects |-> skipped_no_aspects]]
  /\ valid_samples' = 0
  /\ skipped_short_text' = 0
  /\ skipped_no_aspects' = 0
  /\ row_idx' = 0
  /\ IF split_idx < 3
       THEN split_idx' = split_idx + 1 /\ pc' = "rows"
       ELSE split_idx' = split_idx /\ pc' = "readme"
  /\ UNCHANGED <<csv, sample_size, df, train_size, val_size, text, aspects, tokens,
                 iob_tags, sent_labels, aspect_idx, files, written, readme,
                 parsed_split, sentences, calls, selVars, evalVars, svcVars, runVars>>

\* lines 233-247
WriteReadme ==
  /\ pc = "readme"
  /\ readme' = [total |-> Len(df),
                train |-> Len(SplitRows(df, train_size, val_size, 1)),
                valid |-> Len(SplitRows(df, train_size, val_size, 2)),
                test  |-> Len(SplitRows(df, train_size, val_size, 3))]
  /\ pc' = "done"
  /\ UNCHANGED <<csv, sample_size, df, train_size, val_size, split_idx, row_idx, text,
                 aspects, tokens, iob_tags, sent_labels, aspect_idx, files, written,
                 valid_samples, skipped_short_text, skipped_no_aspects, reported,
                 parsed_split, sentences, calls, selVars, evalVars, svcVars, runVars>>

\* evaluate_model.py, parse_iob_file applied to a split file
ParseIobFile ==
  /\ pc = "done"
  /\ \E s \in SplitIds :
       /\ parsed_split' = s
       /\ sentences' = parse_iob_file(files[s])
  /\ pc' = "parsed"
  /\ UNCHANGED <<csv, sample_size, df, train_size, val_size, split_idx, row_idx, text,
                 aspects, tokens, iob_tags, sent_labels, aspect_idx, files, written,
                 valid_samples, skipped_short_text, skipped_no_aspects, reported,
                 readme, calls, selVars, evalVars, svcVars, runVars>>

DatasetNext ==
  \/ Prepare
  \/ SkipShortText
  \/ SkipNoAspects
  \/ Tokenize
  \/ ApplyAspect
  \/ WriteSentence
  \/ EndSplit
  \/ WriteReadme
  \/ ParseIobFile

\* the dataset builder before create_atepc_dataset runs on the rows csv0
DatasetFields(csv0, ssize, sents) ==
  /\ csv = csv0
  /\ sample_size = ssize
  /\ df = <<>>
  /\ train_size = 0
  /\ val_size = 0
  /\ split_idx = 1
  /\ row_idx = 0
  /\ text = <<>>
  /\ aspects = <<>>
  /\ tokens = <<>>
  /\ iob_tags = <<>>
  /\ sent_labels = <<>>
  /\ aspect_idx = 0
  /\ files = [s \in SplitIds |-> <<>>]
  /\ written = [s \in SplitIds |-> <<>>]
  /\ valid_samples = 0
  /\ skipped_short_text = 0
  /\ skipped_no_aspects = 0
  /\ reported = [s \in SplitIds |-> [valid_samples |-> 0, skipped_short_text |-> 0,
                                     skipped_no_aspects |-> 0]]
  /\ readme = [total |-> 0, train |-> 0, valid |-> 0, test |-> 0]
  /\ parsed_split = 0
  /\ sentences = sents

\* no checkpoint selection under way
SelectIdle ==
  /\ checkpoints_exists = FALSE
  /\ listing = <<>>
  /\ selector = "none"
  /\ outcome = "none"
  /\ best_checkpoint = <<>>
  /\ best_score = 0

\* no evaluation under way
EvalIdle ==
  /\ failing = {}
  /\ predictor = 1
  /\ batch_start = 0
  /\ all_results = <<>>
  /\ result_idx = 0
  /\ summary = [total_examples |-> 0, total_aspects |-> 0, error_count |-> 0,
                sentiment_distribution |-> [l \in {"-1", "0", "1"} |-> 0]]
  /\ report = <<>>
  /\ earlier_report = <<>>
  /\ evaluation_data = <<>>

\* run_project.py is not running
RunIdle ==
  /\ cwd = "elsewhere"
  /\ original_cwd = "elsewhere"
  /\ script_idx = 0
  /\ run_log = <<>>

\* no request being served
ServiceIdle ==
  /\ data = [kind |-> "none", keys |-> {}, text |-> <<>>, texts |-> <<>>]
  /\ predictions = <<>>
  /\ response = <<>>

\* create_atepc_dataset is about to run on the rows csv0
DatasetInit(csv0, ssize) ==
  /\ pc = "start"
  /\ calls = <<>>
  /\ DatasetFields(csv0, ssize, <<>>)
  /\ ServiceIdle
  /\ RunIdle
  /\ SelectIdle
  /\ EvalIdle

\* one-row inputs over all generated and hand-written texts
InitTag ==
  \E t \in TagTexts : DatasetInit(<<t>>, DefaultSampleSize)

\* multi-row inputs
InitSplit ==
  \/ \E n \in 0..MaxRows, off \in 0..(Len(SplitCorpus) - 1) :
       DatasetInit(RotatedRows(n, off), DefaultSampleSize)
  \/ \E n \in 0..MaxSampledRows, off \in 0..(Len(SplitCorpus) - 1), ssize \in SmallSampleSizes :
       DatasetInit(RotatedRows(n, off), ssize)
  \/ \E n \in BigRowCounts :
       DatasetInit([i \in 1..n |-> SplitCorpus[2]], DefaultSampleSize)

SpecTag == InitTag /\ [][DatasetNext]_vars

SpecSplit == InitSplit /\ [][DatasetNext]_vars

(***************************************************************************)
(* Sentiment-only runs: assign_sentiment_to_aspect called directly         *)
(***************************************************************************)

\* offsets to call with: every span the matcher finds and, for the first text,
\* the empty span at 0
OffsetPairs(t) ==
  {<<m[2], m[3]>> : m \in Range(extract_aspects_from_text(t))}
    \cup (IF t = SentimentTexts[1] THEN {<<0, 0>>} ELSE {})

\* values of the aspect argument: the span's own text and, for a span that is
\* not empty, an unrelated word
AspectArgs(t, s, e) ==
  {Lower(Slice(t, s, e))} \cup (IF s < e THEN {<<"s", "e", "c", "u", "r", "e">>} ELSE {})

\* the argument tuples (text, aspect, aspect_start, aspect_end) of the calls
SentimentInputs ==
  UNION {UNION {{<<t, a, o[1], o[2]>> : a \in AspectArgs(t, o[1], o[2])} :
                  o \in OffsetPairs(t)} :
           t \in Range(SentimentTexts)}

\* the calls on these arguments, each with what it computes and returns
SentimentCalls == {SentimentCall(in[1], in[2], in[3], in[4]) : in \in SentimentInputs}

CallAssignSentiment ==
  /\ pc = "sentiment"
  /\ Len(calls) < MaxCalls
  /\ \E call \in SentimentCalls : calls' = Append(calls, call)
  /\ UNCHANGED <<pc, dsVars, selVars, evalVars, svcVars, runVars>>

InitSentiment ==
  /\ pc = "sentiment"
  /\ calls = <<>>
  /\ DatasetFields(<<>>, DefaultSampleSize, <<>>)
  /\ ServiceIdle
  /\ RunIdle
  /\ SelectIdle
  /\ EvalIdle

SpecSentiment == InitSentiment /\ [][CallAssignSentiment]_vars

(***************************************************************************)
(* Checkpoint Selector                                                     *)
(***************************************************************************)

\* most entries of the checkpoints directory
MaxDirs == 3

\* scores are held in units of 10^-ScoreDigits
ScoreDigits == 2

\* entries a checkpoints directory may hold: name, is it a directory, does it
\* hold fast_lcf_atepc.config, .state_dict and .tokenizer, os.path.getmtime
Entries ==
  << \* model_apcf1_0.82_x
     [name |-> <<"m","o","d","e","l","_","a","p","c","f","1","_","0",".","8","2","_","x">>,
      is_dir |-> TRUE, artifacts |-> TRUE, mtime |-> 5],
     \* model_apcf1_0.91_y
     [name |-> <<"m","o","d","e","l","_","a","p","c","f","1","_","0",".","9","1","_","y">>,
      is_dir |-> TRUE, artifacts |-> TRUE, mtime |-> 3],
     \* model_nofmt_z
     [name |-> <<"m","o","d","e","l","_","n","o","f","m","t","_","z">>,
      is_dir |-> TRUE, artifacts |-> TRUE, mtime |-> 9],
     \* fast_lcf_atepc_custom_dataset_apcf1_0.82_x
     [name |-> <<"f","a","s","t","_","l","c","f","_","a","t","e","p","c","_","c","u","s","t","o","m","_","d","a","t","a","s","e","t","_","a","p","c","f","1","_","0",".","8","2","_","x">>,
      is_dir |-> TRUE, artifacts |-> TRUE, mtime |-> 1],
     \* fast_lcf_atepc_custom_dataset_apcf1_0.91_y
     [name |-> <<"f","a","s","t","_","l","c","f","_","a","t","e","p","c","_","c","u","s","t","o","m","_","d","a","t","a","s","e","t","_","a","p","c","f","1","_","0",".","9","1","_","y">>,
      is_dir |-> TRUE, artifacts |-> TRUE, mtime |-> 7],
     \* fast_lcf_atepc_custom_dataset_nofmt_z
     [name |-> <<"f","a","s","t","_","l","c","f","_","a","t","e","p","c","_","c","u","s","t","o","m","_","d","a","t","a","s","e","t","_","n","o","f","m","t","_","z">>,
      is_dir |-> TRUE, artifacts |-> TRUE, mtime |-> 2],
     \* fast_lcf_atepc_custom_dataset_apcacc_0.95_apcf1_0.5
     [name |-> <<"f","a","s","t","_","l","c","f","_","a","t","e","p","c","_","c","u","s","t","o","m","_","d","a","t","a","s","e","t","_","a","p","c","a","c","c","_","0",".","9","5","_","a","p","c","f","1","_","0",".","5">>,
      is_dir |-> TRUE, artifacts |-> TRUE, mtime |-> 8],
     \* FAST_LCF_ATEPC_Cybersecurity_apcacc_0.7
     [name |-> <<"F","A","S","T","_","L","C","F","_","A","T","E","P","C","_","C","y","b","e","r","s","e","c","u","r","i","t","y","_","a","p","c","a","c","c","_","0",".","7">>,
      is_dir |-> TRUE, artifacts |-> TRUE, mtime |-> 6],
     \* fast_lcf_atepc_custom_dataset_apcf1_0.99.log
     [name |-> <<"f","a","s","t","_","l","c","f","_","a","t","e","p","c","_","c","u","s","t","o","m","_","d","a","t","a","s","e","t","_","a","p","c","f","1","_","0",".","9","9",".","l","o","g">>,
      is_dir |-> FALSE, artifacts |-> FALSE, mtime |-> 10],
     \* fast_lcf_atepc_custom_dataset_apcacc_0.99_apcf1_0.91
     [name |-> <<"f","a","s","t","_","l","c","f","_","a","t","e","p","c","_","c","u","s","t","o","m","_","d","a","t","a","s","e","t","_","a","p","c","a","c","c","_","0",".","9","9","_","a","p","c","f","1","_","0",".","9","1">>,
      is_dir |-> TRUE, artifacts |-> FALSE, mtime |-> 4],
     \* fast_lcf_atepc_custom_dataset_nofmt_w
     [name |-> <<"f","a","s","t","_","l","c","f","_","a","t","e","p","c","_","c","u","s","t","o","m","_","d","a","t","a","s","e","t","_","n","o","f","m","t","_","w">>,
      is_dir |-> TRUE, artifacts |-> TRUE, mtime |-> 9] >>

\* "fast_lcf_atepc_custom_dataset"
CustomDatasetPrefix ==
  <<"f","a","s","t","_","l","c","f","_","a","t","e","p","c","_","c","u","s","t","o","m","_","d","a","t","a","s","e","t">>

\* "fast_lcf_atepc"
FastLcfAtepc == <<"f","a","s","t","_","l","c","f","_","a","t","e","p","c">>

\* "apcf1_"
ApcF1Tag == <<"a","p","c","f","1","_">>

\* "apcacc_"
ApcAccTag == <<"a","p","c","a","c","c","_">>

DigitValue ==
  ("0" :> 0) @@ ("1" :> 1) @@ ("2" :> 2) @@ ("3" :> 3) @@ ("4" :> 4) @@
  ("5" :> 5) @@ ("6" :> 6) @@ ("7" :> 7) @@ ("8" :> 8) @@ ("9" :> 9)

\* the index of the last character of the longest digit run that starts at
\* index a (a - 1 when s[a] is no digit): what a greedy \d+ consumes
DigitRunEnd(s, a) ==
  LET stops == {q \in a..(Len(s) + 1) : q = Len(s) + 1 \/ s[q] \notin Digits}
  IN  (CHOOSE q \in stops : \A r \in stops : q <= r) - 1

RECURSIVE DigitsToNat(_)
DigitsToNat(ds) ==
  IF ds = <<>> THEN 0
  ELSE 10 * DigitsToNat(SubSeq(ds, 1, Len(ds) - 1)) + DigitValue[ds[Len(ds)]]

\* float(int_digits "." frac_digits), in units of 10^-ScoreDigits
ParseFloat(int_digits, frac_digits) ==
  DigitsToNat(int_digits) * (10 ^ ScoreDigits)
  + (IF Len(frac_digits) <= ScoreDigits
       THEN DigitsToNat(frac_digits) * (10 ^ (ScoreDigits - Len(frac_digits)))
       ELSE DigitsToNat(SubSeq(frac_digits, 1, ScoreDigits)))

\* the start offsets of the matches of tag + r'(\d+\.\d+)' in dirname
ScoreHits(dirname, tag) ==
  {p \in 0..(Len(dirname) - Len(tag)) :
     LET int_end  == DigitRunEnd(dirname, p + Len(tag) + 1)
         frac_end == DigitRunEnd(dirname, int_end + 2)
     IN  /\ SubSeq(dirname, p + 1, p + Len(tag)) = tag
         /\ int_end >= p + Len(tag) + 1
         /\ int_end + 1 <= Len(dirname)
         /\ dirname[int_end + 1] = "."
         /\ frac_end >= int_end + 2}

\* re.search(tag + r'(\d+\.\d+)', dirname): float(group(1)) of the leftmost
\* match, 0.0 when there is none
ScoreAfter(dirname, tag) ==
  LET hits == ScoreHits(dirname, tag)
  IN  IF hits = {} THEN 0
      ELSE LET p        == CHOOSE q \in hits : \A r \in hits : q <= r
               int_end  == DigitRunEnd(dirname, p + Len(tag) + 1)
               frac_end == DigitRunEnd(dirname, int_end + 2)
           IN  ParseFloat(SubSeq(dirname, p + Len(tag) + 1, int_end),
                          SubSeq(dirname, int_end + 2, frac_end))

\* evaluate_model.py: get_apc_f1_from_name
get_apc_f1_from_name(dirname) == ScoreAfter(dirname, ApcF1Tag)

\* run_pyabsa_custom.py: extract_acc_from_name
extract_acc_from_name(dirname) == ScoreAfter(dirname, ApcAccTag)

\* an insertion for ascending order (a sort without reverse=True)
RECURSIVE InsertAscending(_, _)
InsertAscending(sorted, x) ==
  IF sorted = <<>> THEN <<x>>
  ELSE IF sorted[1][1] <= x[1] THEN <<sorted[1]>> \o InsertAscending(Tail(sorted), x)
  ELSE <<x>> \o sorted

\* insert the pair x = <<key, entry>> behind every pair whose key is >= x's key
RECURSIVE InsertDescending(_, _)
InsertDescending(sorted, x) ==
  IF sorted = <<>> THEN <<x>>
  ELSE IF sorted[1][1] >= x[1] THEN <<sorted[1]>> \o InsertDescending(Tail(sorted), x)
  ELSE <<x>> \o sorted

\* list.sort(key=..., reverse=True) on <<key, entry>> pairs: descending, stable
RECURSIVE SortDescending(_)
SortDescending(pairs) ==
  IF pairs = <<>> THEN <<>>
  ELSE InsertDescending(SortDescending(SubSeq(pairs, 1, Len(pairs) - 1)), pairs[Len(pairs)])

\* a filter without the name-prefix test
EvaluationCandidatesAnyDir(entries) ==
  SelectSeq(entries, LAMBDA d : d.is_dir)

\* evaluate_model.py lines 52-55: the qualifying directories
EvaluationCandidates(entries) ==
  SelectSeq(entries, LAMBDA d : d.is_dir /\ StartsWith(d.name, CustomDatasetPrefix))

\* run_pyabsa_custom.py lines 44-63: the qualifying directories
CustomCandidates(entries) ==
  SelectSeq(entries,
            LAMBDA d : /\ d.is_dir
                       /\ IsSubstring(FastLcfAtepc, Lower(d.name))
                       /\ \/ IsSubstring(<<"c", "u", "s", "t", "o", "m">>, Lower(d.name))
                          \/ IsSubstring(<<"c", "y", "b", "e", "r", "s", "e", "c", "u", "r", "i", "t", "y">>,
                                         Lower(d.name))
                          \/ IsSubstring(<<"d", "a", "t", "a", "s", "e", "t">>, Lower(d.name))
                       /\ d.artifacts)

\* candidates keyed by the APC F1 score in their names
KeyedByF1(candidates) ==
  [i \in 1..Len(candidates) |-> <<get_apc_f1_from_name(candidates[i].name), candidates[i]>>]

\* candidates keyed by the APC accuracy in their names
KeyedByAcc(candidates) ==
  [i \in 1..Len(candidates) |-> <<extract_acc_from_name(candidates[i].name), candidates[i]>>]

\* the head of the <<key, entry>> pairs sorted by descending key
Best(pairs) == SortDescending(pairs)[1][2]

\* evaluate_model.py lines 45-63
SelectForEvaluation ==
  /\ pc = "select"
  /\ selector' = "evaluate_model"
  /\ IF ~checkpoints_exists \/ EvaluationCandidates(listing) = <<>>
       THEN /\ outcome' = "FileNotFoundError"
            /\ UNCHANGED <<best_checkpoint, best_score>>
       ELSE /\ outcome' = "selected"
            /\ best_checkpoint' = Best(KeyedByF1(EvaluationCandidates(listing))).name
            /\ best_score' = get_apc_f1_from_name(best_checkpoint')
  /\ pc' = "selected"
  /\ UNCHANGED <<dsVars, calls, checkpoints_exists, listing, evalVars, svcVars, runVars>>

\* run_pyabsa_custom.py: find_custom_model
FindCustomModel ==
  /\ pc = "select"
  /\ selector' = "find_custom_model"
  /\ IF ~checkpoints_exists \/ CustomCandidates(listing) = <<>>
       THEN /\ outcome' = "None"
            /\ UNCHANGED <<best_checkpoint, best_score>>
       ELSE /\ outcome' = "selected"
            /\ best_checkpoint' = Best(KeyedByAcc(CustomCandidates(listing))).name
            /\ best_score' = extract_acc_from_name(best_checkpoint')
  /\ pc' = "selected"
  /\ UNCHANGED <<dsVars, calls, checkpoints_exists, listing, evalVars, svcVars, runVars>>

\* prepare_for_huggingface.py lines 26-42: no exists() test, the iteration of a
\* missing directory raises FileNotFoundError itself
SelectForUpload ==
  /\ pc = "select"
  /\ selector' = "prepare_and_upload_to_huggingface"
  /\ IF ~checkpoints_exists \/ EvaluationCandidates(listing) = <<>>
       THEN /\ outcome' = "FileNotFoundError"
            /\ UNCHANGED <<best_checkpoint, best_score>>
       ELSE /\ outcome' = "selected"
            /\ best_checkpoint' = Best(KeyedByF1(EvaluationCandidates(listing))).name
            /\ best_score' = get_apc_f1_from_name(best_checkpoint')
  /\ pc' = "selected"
  /\ UNCHANGED <<dsVars, calls, checkpoints_exists, listing, evalVars, svcVars, runVars>>

SelectNext ==
  \/ SelectForEvaluation
  \/ FindCustomModel
  \/ SelectForUpload

\* the listings: up to MaxDirs distinct entries in any order
Listings ==
  UNION {{[i \in 1..k |-> Entries[sel[i]]] :
            sel \in {s \in [1..k -> 1..Len(Entries)] : \A i, j \in 1..k : i # j => s[i] # s[j]}} :
         k \in 0..MaxDirs}

InitSelect ==
  /\ pc = "select"
  /\ calls = <<>>
  /\ DatasetFields(<<>>, DefaultSampleSize, <<>>)
  /\ ServiceIdle
  /\ RunIdle
  /\ EvalIdle
  /\ selector = "none"
  /\ outcome = "none"
  /\ best_checkpoint = <<>>
  /\ best_score = 0
  /\ \/ checkpoints_exists = FALSE /\ listing = <<>>
     \/ checkpoints_exists = TRUE /\ listing \in Listings

SpecSelect == InitSelect /\ [][SelectNext]_vars

(***************************************************************************)
(* CybersecurityATEPC.__init__ without a checkpoint path                   *)
(***************************************************************************)

\* line 28: [d for d in checkpoints_dir.iterdir() if d.is_dir()]
Subdirectories(entries) == SelectSeq(entries, LAMBDA d : d.is_dir)

\* a choice of the first directory listed
FirstListed(dirs) == dirs[1]

\* line 32: max(checkpoint_dirs, key=os.path.getmtime), the first of the
\* directories with the greatest modification time
LatestByMtime(dirs) ==
  dirs[CHOOSE i \in 1..Len(dirs) :
         /\ \A j \in 1..Len(dirs) : dirs[j].mtime <= dirs[i].mtime
         /\ \A j \in 1..(i - 1) : dirs[j].mtime < dirs[i].mtime]

\* lines 19-40; AspectExtractor is taken to load a directory that holds the
\* model files and to raise on one that does not
Construct ==
  /\ pc = "construct"
  /\ selector' = "CybersecurityATEPC"
  /\ IF ~checkpoints_exists \/ Subdirectories(listing) = <<>>
       THEN /\ outcome' = "FileNotFoundError"
            /\ UNCHANGED best_checkpoint
       ELSE /\ best_checkpoint' = LatestByMtime(Subdirectories(listing)).name
            /\ outcome' = IF LatestByMtime(Subdirectories(listing)).artifacts
                            THEN "loaded" ELSE "RuntimeError"
  /\ pc' = "constructed"
  /\ UNCHANGED <<dsVars, calls, checkpoints_exists, listing, best_score, evalVars, svcVars, runVars>>

InitConstruct ==
  /\ pc = "construct"
  /\ calls = <<>>
  /\ DatasetFields(<<>>, DefaultSampleSize, <<>>)
  /\ ServiceIdle
  /\ RunIdle
  /\ EvalIdle
  /\ selector = "none"
  /\ outcome = "none"
  /\ best_checkpoint = <<>>
  /\ best_score = 0
  /\ \/ checkpoints_exists = FALSE /\ listing = <<>>
     \/ checkpoints_exists = TRUE /\ listing \in Listings

SpecConstruct == InitConstruct /\ [][Construct]_vars

(***************************************************************************)
(* Batch Evaluator: evaluate_model, lines 87-151                           *)
(***************************************************************************)

\* most sentences of a test set
MaxSentences == 65

\* most sentences the predictor raises on
MaxFailing == 2

batch_size == 32

\* test sets: n sentences, "A B" and "C D E" in turn
EvalSentences == << <<"A", " ", "B">>, <<"C", " ", "D", " ", "E">> >>

TestSet(n) == [i \in 1..n |-> EvalSentences[((i - 1) % Len(EvalSentences)) + 1]]

\* positions at which a sentence may make the predictor raise
ProbePositions == {1, 2, batch_size, batch_size + 1, 2 * batch_size + 1}

\* mock predictors: the result batch_predict returns for one sentence
MockPredict(p, s) ==
  IF p = 1
    THEN [sentence |-> s, aspect |-> <<Split(s)[1]>>, sentiment |-> <<"1">>]
    ELSE IF Len(Split(s)) = 2
      THEN [sentence |-> s, aspect |-> <<>>, sentiment |-> <<>>]
      ELSE [sentence |-> s, aspect |-> <<Split(s)[1], Split(s)[3]>>,
            sentiment |-> <<"-1", "Positive">>]

MockPredictors == {1, 2}

\* {"error": str(e)}
ErrorPlaceholder == [error |-> "batch_predict raised"]

IsError(result) == "error" \in DOMAIN result

\* a batch that ignores all but the first sentence of a failed batch
FailedBatchResultsOnce(batch) == <<ErrorPlaceholder>>

\* line 105: [{"error": str(e)}] * len(batch)
FailedBatchResults(batch) == [k \in 1..Len(batch) |-> ErrorPlaceholder]

\* does batch_predict raise on sentences[i:i+batch_size]
BatchRaises(i) == \E k \in failing : i < k /\ k <= i + batch_size

\* lines 91-105: one turn of the batch loop
ProcessBatch ==
  /\ pc = "batches"
  /\ batch_start < Len(sentences)
  /\ LET batch == Slice(sentences, batch_start, batch_start + batch_size)
     IN  all_results' = all_results \o
           (IF BatchRaises(batch_start)
              THEN FailedBatchResults(batch)
              ELSE [k \in 1..Len(batch) |-> MockPredict(predictor, batch[k])])
  /\ batch_start' = batch_start + batch_size
  /\ UNCHANGED <<pc, dsVars, calls, selVars, svcVars, runVars, failing, predictor, result_idx, summary, report,
                 earlier_report, evaluation_data>>

\* a loop body that counts a sentiment value outside "-1", "0", "1" as "0"
AddResultUnknownAsNeutral(acc, result) ==
  IF IsError(result)
    THEN [acc EXCEPT !.error_count = @ + 1]
    ELSE [acc EXCEPT
            !.total_aspects = @ + Len(result.aspect),
            !.sentiment_distribution =
              [l \in {"-1", "0", "1"} |->
                 @[l] + Cardinality({n \in 1..Len(result.sentiment) :
                                       \/ result.sentiment[n] = l
                                       \/ l = "0" /\ result.sentiment[n] \notin {"-1", "0", "1"}})]]

\* lines 113-125: one turn of the loop over all_results
AddResult(acc, result) ==
  IF IsError(result)
    THEN [acc EXCEPT !.error_count = @ + 1]
    ELSE [acc EXCEPT
            !.total_aspects = @ + Len(result.aspect),
            !.sentiment_distribution =
              [l \in {"-1", "0", "1"} |->
                 @[l] + Cardinality({n \in 1..Len(result.sentiment) :
                                       result.sentiment[n] = l})]]

\* lines 108-111: the counters before the loop over all_results
BeginAggregate ==
  /\ pc = "batches"
  /\ batch_start >= Len(sentences)
  /\ summary' = [total_examples |-> Len(all_results), total_aspects |-> 0, error_count |-> 0,
                 sentiment_distribution |-> [l \in {"-1", "0", "1"} |-> 0]]
  /\ result_idx' = 0
  /\ pc' = "results"
  /\ UNCHANGED <<dsVars, calls, selVars, svcVars, runVars, failing, predictor, batch_start, all_results, report,
                 earlier_report, evaluation_data>>

\* lines 113-125: the loop takes the next result
AggregateResult ==
  /\ pc = "results"
  /\ result_idx < Len(all_results)
  /\ summary' = AddResult(summary, all_results[result_idx + 1])
  /\ result_idx' = result_idx + 1
  /\ UNCHANGED <<pc, dsVars, calls, selVars, svcVars, runVars, failing, predictor, batch_start, all_results, report,
                 earlier_report, evaluation_data>>

\* lines 127-135: the loop is over, the counters are printed
Aggregate ==
  /\ pc = "results"
  /\ result_idx >= Len(all_results)
  /\ pc' = "aggregated"
  /\ UNCHANGED <<dsVars, calls, selVars, svcVars, runVars, failing, predictor, batch_start, all_results,
                 result_idx, summary, report,
                 earlier_report, evaluation_data>>

\* a divisor without the guard against zero
AverageDivisorUnguarded(total_examples, error_count) == total_examples - error_count

\* lines 130 and 147: max(1, total_examples - error_count)
AverageDivisor(total_examples, error_count) == Max(1, total_examples - error_count)

\* a report left in evaluation_results.json by an earlier program
EarlierReport ==
  [total_examples |-> 1, total_aspects |-> 0,
   average_aspects_per_example |-> [num |-> 0, den |-> 1], error_count |-> 1,
   sentiment_distribution |-> [l \in {"-1", "0", "1"} |-> 0],
   results |-> <<ErrorPlaceholder>>]

\* lines 138-151: evaluation_results_fixed.json
SaveReport ==
  /\ pc = "aggregated"
  /\ report' = <<[total_examples |-> summary.total_examples,
                  total_aspects |-> summary.total_aspects,
                  average_aspects_per_example |->
                    [num |-> summary.total_aspects,
                     den |-> AverageDivisor(summary.total_examples, summary.error_count)],
                  error_count |-> summary.error_count,
                  sentiment_distribution |-> summary.sentiment_distribution,
                  results |-> all_results]>>
  /\ pc' = "saved"
  /\ UNCHANGED <<dsVars, calls, selVars, svcVars, runVars, failing, predictor, batch_start, all_results,
                 result_idx, summary, earlier_report, evaluation_data>>

\* analyze_model_errors_post_eval.py lines 5-12: the report is read from
\* evaluation_results.json next to the src directory; open() raises
\* FileNotFoundError when that file does not exist
AnalyzeErrors ==
  /\ pc = "saved"
  /\ IF earlier_report = <<>>
       THEN pc' = "FileNotFoundError" /\ evaluation_data' = evaluation_data
       ELSE pc' = "analyzed" /\ evaluation_data' = earlier_report
  /\ UNCHANGED <<dsVars, calls, selVars, svcVars, runVars, failing, predictor, batch_start, all_results,
                 result_idx, summary, report, earlier_report>>

EvalNext ==
  \/ ProcessBatch
  \/ BeginAggregate
  \/ AggregateResult
  \/ Aggregate
  \/ SaveReport
  \/ AnalyzeErrors

InitEval ==
  /\ pc = "batches"
  /\ calls = <<>>
  /\ SelectIdle
  /\ ServiceIdle
  /\ RunIdle
  /\ \E n \in 0..MaxSentences : DatasetFields(<<>>, DefaultSampleSize, TestSet(n))
  /\ failing \in {F \in SUBSET (ProbePositions \cap (1..Len(sentences))) :
                    Cardinality(F) <= MaxFailing}
  /\ predictor \in MockPredictors
  /\ batch_start = 0
  /\ all_results = <<>>
  /\ result_idx = 0
  /\ summary = [total_examples |-> 0, total_aspects |-> 0, error_count |-> 0,
                sentiment_distribution |-> [l \in {"-1", "0", "1"} |-> 0]]
  /\ report = <<>>
  /\ earlier_report \in {<<>>, <<EarlierReport>>}
  /\ evaluation_data = <<>>

SpecEval == InitEval /\ [][EvalNext]_vars

(***************************************************************************)
(* HTTP service: api.py and CybersecurityATEPC                             *)
(***************************************************************************)

\* texts a request may carry
ApiTexts ==
  {<<"p", "a", "t", "c", "h", " ", "f", "a", "i", "l", "e", "d">>,
   <<"a", "l", "l", " ", "f", "i", "n", "e">>}

\* most texts of one batch request
MaxTexts == 3

\* the lists a batch request may carry
TextLists == UNION {[1..n -> ApiTexts] : n \in 0..MaxTexts}

\* request.get_json(): None, a JSON object or a JSON array of strings; keys
\* holds the object's keys or the array's elements, text the value of
\* data['text'] and texts the value of data['texts']
Bodies ==
  {[kind |-> "none", keys |-> {}, text |-> <<>>, texts |-> <<>>]}
    \cup {[kind |-> "object", keys |-> K, text |-> <<>>, texts |-> <<>>] : K \in {{}, {"other"}}}
    \cup {[kind |-> "object", keys |-> K, text |-> t, texts |-> <<>>] :
            K \in {{"text"}, {"text", "other"}}, t \in ApiTexts}
    \cup {[kind |-> "object", keys |-> {"texts"}, text |-> <<>>, texts |-> l] : l \in TextLists}
    \cup {[kind |-> "array", keys |-> K, text |-> <<>>, texts |-> <<>>] :
            K \in {{}, {"other"}, {"text"}, {"texts"}}}

\* confidences are JSON numbers; they are held here as their decimal text
ConfidenceNumbers == {"0.99", "0.51"}

\* what aspect_extractor.predict may do for a text: raise, or return a dict
\* whose 'aspect', 'sentiment' and 'confidence' lists are these (a missing key
\* reads as the empty list, result.get(key, []))
PredictOutcomes ==
  {[raises |-> TRUE, aspect |-> <<>>, sentiment |-> <<>>, confidence |-> <<>>],
   [raises |-> FALSE, aspect |-> <<>>, sentiment |-> <<>>, confidence |-> <<>>],
   [raises |-> FALSE, aspect |-> <<"patch", "server">>, sentiment |-> <<"-1", "1">>,
    confidence |-> <<"0.99", "0.51">>],
   [raises |-> FALSE, aspect |-> <<"patch", "server">>, sentiment |-> <<"0", "Positive">>,
    confidence |-> <<"0.99">>],
   [raises |-> FALSE, aspect |-> <<"patch">>, sentiment |-> <<"1">>, confidence |-> <<>>],
   [raises |-> FALSE, aspect |-> <<"patch", "server">>, sentiment |-> <<"-1">>,
    confidence |-> <<"0.99", "0.51">>]}

\* self.sentiment_map.get(label, label)
sentiment_map(label) ==
  IF label = "-1" THEN "Negative"
  ELSE IF label = "0" THEN "Neutral"
  ELSE IF label = "1" THEN "Positive"
  ELSE label

\* a lookup that reports a missing confidence as "None"
ConfidenceOrNone(confidences, i) ==
  IF i <= Len(confidences) THEN confidences[i] ELSE "None"

\* line 71: confidences[i] if i < len(confidences) else "N/A" (i counted from 1 here)
ConfidenceAt(confidences, i) ==
  IF i <= Len(confidences) THEN confidences[i] ELSE "N/A"

\* CybersecurityATEPC.analyze_text with predict behaving as result says:
\* sentiments[i] raises IndexError when there are fewer sentiments than aspects,
\* and every exception of the try block ends in the error record
analyze_text(t, result) ==
  IF result.raises
    THEN [text |-> t, error |-> "predict raised"]
    ELSE IF Len(result.sentiment) < Len(result.aspect)
      THEN [text |-> t, error |-> "list index out of range"]
      ELSE [text |-> t,
            aspects |-> [i \in 1..Len(result.aspect) |->
                           [aspect |-> result.aspect[i],
                            sentiment |-> sentiment_map(result.sentiment[i]),
                            confidence |-> ConfidenceAt(result.confidence, i)]]]

\* api.py lines 8-16; data['text'] on a JSON array raises TypeError, which
\* Flask answers with status 500
Analyze ==
  /\ pc = "request"
  /\ response' =
       IF data.kind = "none" \/ data.keys = {} \/ "text" \notin data.keys
         THEN <<[status |-> 400, body |-> [error |-> "No text provided"]]>>
         ELSE IF data.kind = "array"
           THEN <<[status |-> 500, body |-> [error |-> "Internal Server Error"]]>>
           ELSE <<[status |-> 200, body |-> analyze_text(data.text, predictions[data.text])]>>
  /\ pc' = "responded"
  /\ UNCHANGED <<dsVars, calls, selVars, evalVars, runVars, data, predictions>>

\* a batch that ends at the first text whose record is an error record
BatchUntilError(texts, results) ==
  LET failed == {i \in 1..Len(texts) :
                   "error" \in DOMAIN analyze_text(texts[i], results[texts[i]])}
      n      == IF failed = {} THEN Len(texts)
                ELSE (CHOOSE i \in failed : \A j \in failed : i <= j) - 1
  IN  [i \in 1..n |-> analyze_text(texts[i], results[texts[i]])]

\* CybersecurityATEPC.batch_analyze, line 98, with predict behaving on each
\* text as results says
batch_analyze(texts, results) ==
  [i \in 1..Len(texts) |-> analyze_text(texts[i], results[texts[i]])]

\* api.py lines 18-26; data['texts'] on a JSON array raises TypeError, which
\* Flask answers with status 500
BatchAnalyze ==
  /\ pc = "request"
  /\ response' =
       IF data.kind = "none" \/ data.keys = {} \/ "texts" \notin data.keys
         THEN <<[status |-> 400, body |-> [error |-> "No texts provided"]]>>
         ELSE IF data.kind = "array"
           THEN <<[status |-> 500, body |-> [error |-> "Internal Server Error"]]>>
           ELSE <<[status |-> 200, body |-> [results |-> batch_analyze(data.texts, predictions)]]>>
  /\ pc' = "batch_responded"
  /\ UNCHANGED <<dsVars, calls, selVars, evalVars, runVars, data, predictions>>

ServiceNext == Analyze \/ BatchAnalyze

InitService ==
  /\ pc = "request"
  /\ calls = <<>>
  /\ DatasetFields(<<>>, DefaultSampleSize, <<>>)
  /\ SelectIdle
  /\ EvalIdle
  /\ RunIdle
  /\ data \in Bodies
  /\ predictions \in [ApiTexts -> PredictOutcomes]
  /\ response = <<>>

SpecService == InitService /\ [][ServiceNext]_vars

(***************************************************************************)
(* Pipeline runner: run_project.py                                         *)
(***************************************************************************)

\* lines 31-39
scripts ==
  <<"collect_eurepoc.py", "collect_cisa_trafilatura.py", "collect_csis_trafilatura.py",
    "preprocess_data.py", "run_bertopic.py", "run_pyabsa_baseline.py", "phase1_report.py">>

\* exit codes a script may end with
ReturnCodes == {0, 1, 2}

\* directories main may be started from
Directories == {"project_root", "elsewhere"}

\* a test that takes every exit code for success
SucceededAlways(returncode) == TRUE

\* line 19: result.returncode == 0
Succeeded(returncode) == returncode = 0

\* lines 44-48: main notes the working directory and changes to the project root
BeginMain ==
  /\ pc = "main"
  /\ cwd' = "project_root"
  /\ script_idx' = 1
  /\ pc' = "loop"
  /\ UNCHANGED <<dsVars, calls, selVars, evalVars, svcVars, original_cwd, run_log>>

\* lines 50-52 and 9-17: the next script is launched with subprocess.run
LaunchScript ==
  /\ pc = "loop"
  /\ script_idx <= Len(scripts)
  /\ run_log' = Append(run_log, [script |-> scripts[script_idx], event |-> "launched",
                                 returncode |-> 0])
  /\ pc' = "subprocess"
  /\ UNCHANGED <<dsVars, calls, selVars, evalVars, svcVars, cwd, original_cwd, script_idx>>

\* lines 25-27 and 53-55: os.chdir or subprocess.run raises, run_script
\* returns False and main leaves the loop
LaunchRaises ==
  /\ pc = "loop"
  /\ script_idx <= Len(scripts)
  /\ run_log' = Append(run_log, [script |-> scripts[script_idx], event |-> "exception",
                                 returncode |-> 0])
  /\ pc' = "after_loop"
  /\ UNCHANGED <<dsVars, calls, selVars, evalVars, svcVars, cwd, original_cwd, script_idx>>

\* lines 16-24 and 53-55: the script ends; main goes on to the next script when
\* run_script returns True and leaves the loop when it returns False
ScriptExits ==
  /\ pc = "subprocess"
  /\ \E returncode \in ReturnCodes :
       /\ run_log' = Append(run_log, [script |-> scripts[script_idx], event |-> "exited",
                                      returncode |-> returncode])
       /\ IF Succeeded(returncode)
            THEN script_idx' = script_idx + 1 /\ pc' = "loop"
            ELSE script_idx' = script_idx /\ pc' = "after_loop"
  /\ UNCHANGED <<dsVars, calls, selVars, evalVars, svcVars, cwd, original_cwd>>

\* lines 57-61: behind the loop main changes back to the original directory
FinishMain ==
  /\ \/ pc = "after_loop"
     \/ pc = "loop" /\ script_idx > Len(scripts)
  /\ cwd' = original_cwd
  /\ pc' = "completed"
  /\ UNCHANGED <<dsVars, calls, selVars, evalVars, svcVars, original_cwd, script_idx, run_log>>

RunNext ==
  \/ BeginMain
  \/ LaunchScript
  \/ LaunchRaises
  \/ ScriptExits
  \/ FinishMain

InitRun ==
  /\ pc = "main"
  /\ calls = <<>>
  /\ DatasetFields(<<>>, DefaultSampleSize, <<>>)
  /\ SelectIdle
  /\ EvalIdle
  /\ ServiceIdle
  /\ original_cwd \in Directories
  /\ cwd = original_cwd
  /\ script_idx = 0
  /\ run_log = <<>>

SpecRun == InitRun /\ [][RunNext]_vars

(***************************************************************************)
(* Properties                                                              *)
(***************************************************************************)

\* C1: the list extract_aspects_from_text returns is sorted by start offset
\* ascending and consecutive matches a, b do not overlap: b.start >= a.end
C1_SortedNonOverlapping ==
  \A k \in 1..(Len(aspects) - 1) :
    /\ aspects[k][2] <= aspects[k + 1][2]
    /\ aspects[k + 1][2] >= aspects[k][3]

\* a row with two kept matches and a candidate that the overlap filter dropped
C1_Witness ==
  /\ pc = "tagging"
  /\ Len(aspects) >= 2
  /\ Len(AllMatches(text)) > Len(aspects)

\* C2: every token tagged I-ASP is immediately preceded by a token tagged B-ASP
\* or I-ASP, whatever matches have been applied; the first token is never I-ASP
C2_InsideFollowsBegin ==
  \A t \in 1..Len(iob_tags) :
    iob_tags[t] = TagI => t > 1 /\ iob_tags[t - 1] \in {TagB, TagI}

\* all matches of a sentence applied, two of them on the same token run, and
\* an I-ASP token in the result
C2_Witness ==
  /\ pc = "tagging"
  /\ aspect_idx > Len(aspects)
  /\ \E t \in 1..Len(iob_tags) : iob_tags[t] = TagI
  /\ \E k1, k2 \in 1..Len(aspects) :
       /\ k1 < k2
       /\ FirstRun(tokens, aspects[k1][1]) # -1
       /\ FirstRun(tokens, aspects[k1][1]) = FirstRun(tokens, aspects[k2][1])

\* a line of a split file is "token tag label" with a known tag and label,
\* and label "0" on a token tagged O
WellFormedLine(line) ==
  LET parts == Split(line)
  IN  /\ Len(parts) = 3
      /\ line = Join(parts, <<" ">>)
      /\ parts[2] \in {TagO, TagB, TagI}
      /\ parts[3] \in {<<"-", "1">>, <<"0">>, <<"1">>}
      /\ parts[2] = TagO => parts[3] = <<"0">>

\* C3: tokens, tags and labels of a sentence have the same length, and every
\* non-blank line of every split file is a well-formed "token tag label" line
\* (tag in O, B-ASP, I-ASP; label in -1, 0, 1; label 0 on tokens tagged O)
C3_WellFormedBlocks ==
  /\ Len(iob_tags) = Len(tokens)
  /\ Len(sent_labels) = Len(tokens)
  /\ \A t \in 1..Len(tokens) : iob_tags[t] = TagO => sent_labels[t] = <<"0">>
  /\ \A s \in SplitIds :
       LET lines == ReadLines(files[s])
       IN  \A l \in 1..Len(lines) : lines[l] = <<>> \/ WellFormedLine(lines[l])

\* a written block that holds a token tagged O and a token labelled -1 or 1
C3_Witness ==
  \E s \in SplitIds :
    LET lines == ReadLines(files[s])
    IN  /\ \E l \in 1..Len(lines) : lines[l] # <<>> /\ Split(lines[l])[2] = TagO
        /\ \E l \in 1..Len(lines) : lines[l] # <<>> /\ Split(lines[l])[3] # <<"0">>

\* C4: parse_iob_file applied to a split file returns one string per written
\* sentence, in the written order, each the sentence's tokens joined by " "
C4_RoundTrip ==
  pc = "parsed" =>
    sentences = [k \in 1..Len(written[parsed_split]) |->
                   Join(written[parsed_split][k], <<" ">>)]

\* a split file of at least two sentences has been parsed
C4_Witness ==
  /\ pc = "parsed"
  /\ Len(sentences) >= 2

\* C5: for N rows (N > 10) the splits add up to N, with len(train) =
\* floor(0.7 N) and len(valid) = floor(0.15 N), the test split the remainder
C5_SplitSizeLaw ==
  (pc # "start" /\ Len(df) > 10) =>
    /\ Len(SplitRows(df, train_size, val_size, 1))
       + Len(SplitRows(df, train_size, val_size, 2))
       + Len(SplitRows(df, train_size, val_size, 3)) = Len(df)
    /\ Len(SplitRows(df, train_size, val_size, 1)) = (7 * Len(df)) \div 10
    /\ Len(SplitRows(df, train_size, val_size, 2)) = (15 * Len(df)) \div 100

ListedNames == {listing[i].name : i \in 1..Len(listing)}

\* model_apcf1_0.82_x, model_apcf1_0.91_y, model_nofmt_z
UnprefixedTrio == {Entries[1].name, Entries[2].name, Entries[3].name}

\* the same three names behind fast_lcf_atepc_custom_dataset_
PrefixedTrio == {Entries[4].name, Entries[5].name, Entries[6].name}

\* the selected directory qualifies, no qualifying directory has a greater
\* score, and the reported score is the selected directory's own
SelectsMaximum ==
  outcome = "selected" =>
    LET candidates == IF selector = "find_custom_model"
                        THEN Range(CustomCandidates(listing))
                        ELSE Range(EvaluationCandidates(listing))
        Score(n)   == IF selector = "find_custom_model"
                        THEN extract_acc_from_name(n)
                        ELSE get_apc_f1_from_name(n)
    IN  /\ \E d \in candidates : d.name = best_checkpoint
        /\ \A d \in candidates : Score(d.name) <= Score(best_checkpoint)
        /\ best_score = Score(best_checkpoint)

\* C6 as stated: the selection returns a qualifying directory of greatest
\* score with its own score, and among model_apcf1_0.82_x, model_apcf1_0.91_y
\* and model_nofmt_z it returns model_apcf1_0.91_y with score 0.91
C6_Original ==
  /\ SelectsMaximum
  /\ (pc = "selected" /\ ListedNames = UnprefixedTrio) =>
       /\ outcome = "selected"
       /\ best_checkpoint = Entries[2].name
       /\ best_score = ParseFloat(<<"0">>, <<"9", "1">>)

\* C6 amended: the selection returns a qualifying directory of greatest score
\* with its own score, and among the three names carrying the required prefix
\* fast_lcf_atepc_custom_dataset evaluate_model selects the one of score 0.91
C6_Amended ==
  /\ SelectsMaximum
  /\ (pc = "selected" /\ selector = "evaluate_model" /\ ListedNames = PrefixedTrio) =>
       /\ outcome = "selected"
       /\ best_checkpoint = Entries[5].name
       /\ best_score = ParseFloat(<<"0">>, <<"9", "1">>)

\* evaluate_model has selected among the three prefixed directories
C6_Witness ==
  /\ pc = "selected"
  /\ selector = "evaluate_model"
  /\ ListedNames = PrefixedTrio
  /\ outcome = "selected"

\* the loop variable i of the batch that holds sentence k (k counted from 1)
BatchOf(k) == ((k - 1) \div batch_size) * batch_size

FailedSentences == {k \in 1..Len(sentences) : BatchRaises(BatchOf(k))}

\* one placeholder per sentence of a failed batch, the predictor's own result
\* for every other sentence, error_count the number of sentences in failed batches
BatchIsolation ==
  pc \in {"aggregated", "saved"} =>
    /\ Len(all_results) = Len(sentences)
    /\ \A k \in 1..Len(sentences) :
         all_results[k] = IF k \in FailedSentences
                            THEN ErrorPlaceholder
                            ELSE MockPredict(predictor, sentences[k])
    /\ summary.error_count = Cardinality(FailedSentences)

C8_DecisionRule ==
  \A k \in 1..Len(calls) :
    /\ calls[k].label = "Positive" <=> calls[k].positive_count > calls[k].negative_count
    /\ calls[k].label = "Negative" <=> calls[k].negative_count > calls[k].positive_count
    /\ calls[k].label = "Neutral" <=> calls[k].positive_count = calls[k].negative_count

\* calls that returned each of the three labels, one Neutral on counts 0 : 0
C8_Witness ==
  /\ pc = "sentiment"
  /\ \E k \in 1..Len(calls) : calls[k].label = "Positive"
  /\ \E k \in 1..Len(calls) : calls[k].label = "Negative"
  /\ \E k \in 1..Len(calls) :
       /\ calls[k].label = "Neutral"
       /\ calls[k].positive_count = 0
       /\ calls[k].negative_count = 0

\* "the vulnerability was successfully mitigated and resolved"
ExampleContext == SentimentTexts[1]

OnExampleContext(call) ==
  ContextWindow(call.text, call.aspect_start, call.aspect_end) = ExampleContext

\* C9 as stated: on the example context positive_count is 2, negative_count
\* is 0 and the label is Positive
C9_Original ==
  \A k \in 1..Len(calls) :
    OnExampleContext(calls[k]) =>
      /\ calls[k].positive_count = 2
      /\ calls[k].negative_count = 0
      /\ calls[k].label = "Positive"

\* C9 amended: on the example context positive_count is 3 ("successful" is a
\* substring of "successfully", besides "mitigated" and "resolved"),
\* negative_count is 0 and the label is Positive
C9_Amended ==
  \A k \in 1..Len(calls) :
    OnExampleContext(calls[k]) =>
      /\ calls[k].positive_count = 3
      /\ calls[k].negative_count = 0
      /\ calls[k].label = "Positive"

\* the classifier has been called on the example context
C9_Witness ==
  /\ pc = "sentiment"
  /\ \E k \in 1..Len(calls) : OnExampleContext(calls[k])

\* C10: two calls with the same text and offsets return the same label,
\* whatever their aspect arguments and whatever was called in between
C10_SameInputsSameLabel ==
  \A i, j \in 1..Len(calls) :
    (/\ calls[i].text = calls[j].text
     /\ calls[i].aspect_start = calls[j].aspect_start
     /\ calls[i].aspect_end = calls[j].aspect_end)
    => calls[i].label = calls[j].label

\* two calls on the same text and offsets with different aspect arguments,
\* and a call on another text between them
C10_Witness ==
  /\ pc = "sentiment"
  /\ Len(calls) = 3
  /\ calls[1].text = calls[3].text
  /\ calls[1].aspect_start = calls[3].aspect_start
  /\ calls[1].aspect_end = calls[3].aspect_end
  /\ calls[1].aspect # calls[3].aspect
  /\ calls[2].text # calls[1].text

\* does entry d qualify for the selector variant that ran
Qualifies(d) ==
  IF selector = "find_custom_model"
    THEN CustomCandidates(<<d>>) # <<>>
    ELSE d.is_dir /\ StartsWith(d.name, CustomDatasetPrefix)

\* the base directory is missing or holds no qualifying subdirectory
NothingToSelect ==
  \/ ~checkpoints_exists
  \/ \A i \in 1..Len(listing) : ~Qualifies(listing[i])

\* C11 as stated: every selector variant fails with a not-found error when
\* the checkpoints directory is missing or holds no qualifying subdirectory
C11_Original ==
  (pc = "selected" /\ NothingToSelect) => outcome = "FileNotFoundError"

\* C11 amended: when the checkpoints directory is missing or holds no
\* qualifying subdirectory, the selections of evaluate_model and of
\* prepare_and_upload_to_huggingface fail with FileNotFoundError, and
\* find_custom_model returns None without raising
C11_Amended ==
  (pc = "selected" /\ NothingToSelect) =>
    outcome = IF selector = "find_custom_model" THEN "None" ELSE "FileNotFoundError"

\* the upload selection has failed on a directory that exists and holds
\* entries, none of them qualifying
C11_Witness ==
  /\ pc = "selected"
  /\ selector = "prepare_and_upload_to_huggingface"
  /\ checkpoints_exists
  /\ listing # <<>>
  /\ NothingToSelect
  /\ outcome = "FileNotFoundError"

\* the tag whose number the selector variant that ran sorts by
SelectorTag == IF selector = "find_custom_model" THEN ApcAccTag ELSE ApcF1Tag

\* the qualifying directories of the selector variant that ran
SelectorCandidates ==
  IF selector = "find_custom_model"
    THEN CustomCandidates(listing)
    ELSE EvaluationCandidates(listing)

\* the selected directory's name does not match the score pattern
SelectedUnparseable ==
  /\ outcome = "selected"
  /\ ScoreHits(best_checkpoint, SelectorTag) = {}

\* C12 as stated: a qualifying directory whose name does not match the score
\* pattern is selected only if it is the only qualifying candidate
C12_Original ==
  SelectedUnparseable => Len(SelectorCandidates) = 1

\* C12 amended: a qualifying directory whose name does not match the score
\* pattern is selected only if no qualifying candidate has a score above 0.0
C12_Amended ==
  SelectedUnparseable =>
    \A i \in 1..Len(SelectorCandidates) :
      ScoreAfter(SelectorCandidates[i].name, SelectorTag) = 0

\* evaluate_model has selected a directory of unparseable name among two or
\* more qualifying directories
C12_Witness ==
  /\ selector = "evaluate_model"
  /\ SelectedUnparseable
  /\ Len(SelectorCandidates) >= 2

\* the body {"text": ..., "aspects": [{aspect, sentiment, confidence}, ...]}
\* with each confidence a number or "N/A"
HasAspectsShape(body) ==
  /\ DOMAIN body = {"text", "aspects"}
  /\ \A i \in 1..Len(body.aspects) :
       /\ DOMAIN body.aspects[i] = {"aspect", "sentiment", "confidence"}
       /\ body.aspects[i].confidence \in ConfidenceNumbers \cup {"N/A"}

\* the request has a JSON object with a text key, or no JSON body at all
ObjectOrAbsent == data.kind \in {"none", "object"}

\* predict fails for the request's text, by raising or by returning fewer
\* sentiments than aspects
PredictionFails ==
  /\ data.text \in DOMAIN predictions
  /\ \/ predictions[data.text].raises
     \/ Len(predictions[data.text].sentiment) < Len(predictions[data.text].aspect)

AllErrors == \A k \in 1..Len(all_results) : IsError(all_results[k])

\* C14: the saved average is total_aspects over max(1, total_examples -
\* error_count); the divisor is at least 1, and for an empty test set or a run
\* of errors only the average is 0
C14_AverageDivisor ==
  pc = "saved" =>
    LET average == report[1].average_aspects_per_example
        good    == report[1].total_examples - report[1].error_count
    IN  /\ average.num = report[1].total_aspects
        /\ average.den = (IF good >= 1 THEN good ELSE 1)
        /\ average.den >= 1
        /\ (sentences = <<>> \/ AllErrors) => average.num = 0

\* a saved report of a run on a test set that is not empty and gave errors only
C14_Witness ==
  /\ pc = "saved"
  /\ sentences # <<>>
  /\ AllErrors
  /\ report[1].average_aspects_per_example.den = 1

\* the results the aggregation has counted: all of them once the loop is over
Counted == 1..(IF pc = "results" THEN result_idx ELSE Len(all_results))

\* the counted results that are no error placeholders
GoodResults == {k \in Counted : ~IsError(all_results[k])}

\* C15: total_examples is the number of records; over the records counted so
\* far error_count is the number of error records, total_aspects the number
\* of aspects of the other records, and each of the counters "-1", "0", "1"
\* the number of sentiment values of the other records equal to it, any other
\* sentiment value changing no counter
C15_Aggregation ==
  pc \in {"results", "aggregated", "saved"} =>
    /\ summary.total_examples = Len(all_results)
    /\ summary.error_count = Cardinality(Counted) - Cardinality(GoodResults)
    /\ summary.total_aspects =
         Cardinality(UNION {{<<k, n>> : n \in 1..Len(all_results[k].aspect)} : k \in GoodResults})
    /\ \A l \in {"-1", "0", "1"} :
         summary.sentiment_distribution[l] =
           Cardinality(UNION {{<<k, n>> : n \in {m \in 1..Len(all_results[k].sentiment) :
                                                  all_results[k].sentiment[m] = l}} :
                              k \in GoodResults})

\* aggregated results with an error record, and with a sentiment value outside
\* the three labels so that the counters add up to less than total_aspects
C15_Witness ==
  /\ pc = "aggregated"
  /\ summary.error_count > 0
  /\ summary.total_aspects >
       summary.sentiment_distribution["-1"] + summary.sentiment_distribution["0"]
       + summary.sentiment_distribution["1"]

\* C16: all tokens of one aspect span, a B-ASP token with the I-ASP tokens
\* that follow it, carry the same sentiment label, whatever matches have been
\* applied: a token tagged I-ASP has the label of the token before it
C16_LabelConstantOnSpan ==
  \A t \in 2..Len(iob_tags) :
    iob_tags[t] = TagI => sent_labels[t] = sent_labels[t - 1]

\* a finished sentence with an I-ASP token labelled other than "0" whose run
\* was tagged twice, by two matches that got different labels
C16_Witness ==
  /\ pc = "tagging"
  /\ aspect_idx > Len(aspects)
  /\ \E t \in 2..Len(iob_tags) : iob_tags[t] = TagI /\ sent_labels[t] # <<"0">>
  /\ Len(calls) = 2
  /\ calls[1].label # calls[2].label
  /\ FirstRun(tokens, aspects[1][1]) = FirstRun(tokens, aspects[2][1])

\* the counters a run over rows must end with: rows shorter than 20 characters,
\* rows of 20 characters or more without a match, and the rows left
Outcomes(rows) ==
  LET short == {k \in 1..Len(rows) : Len(rows[k]) < 20}
      bare  == {k \in 1..Len(rows) :
                  Len(rows[k]) >= 20 /\ extract_aspects_from_text(rows[k]) = <<>>}
  IN  [valid_samples |-> Len(rows) - Cardinality(short) - Cardinality(bare),
       skipped_short_text |-> Cardinality(short),
       skipped_no_aspects |-> Cardinality(bare)]

\* the number of sentence blocks of a split file: its blank lines
BlockCount(content) ==
  Cardinality({l \in 1..Len(ReadLines(content)) : ReadLines(content)[l] = <<>>})

\* has the loop of line 162 finished split s
SplitFinished(s) == pc \in {"readme", "done", "parsed"} \/ (pc \in {"rows", "tagging"} /\ s < split_idx)

\* C17: every text of a split is skipped as short (under 20 characters),
\* skipped for lacking aspects (20 or more characters, no match) or written
\* as one block; the three counters add up to the split's size and the split
\* file holds valid_samples blocks
C17_ThreeOutcomes ==
  /\ pc \in {"rows", "tagging"} =>
       /\ [valid_samples |-> valid_samples,
           skipped_short_text |-> skipped_short_text,
           skipped_no_aspects |-> skipped_no_aspects]
            = Outcomes(SubSeq(CurrentRows, 1, row_idx))
       /\ BlockCount(files[split_idx]) = valid_samples
  /\ \A s \in SplitIds :
       SplitFinished(s) =>
         /\ reported[s] = Outcomes(SplitRows(df, train_size, val_size, s))
         /\ reported[s].valid_samples + reported[s].skipped_short_text
            + reported[s].skipped_no_aspects = Len(SplitRows(df, train_size, val_size, s))
         /\ BlockCount(files[s]) = reported[s].valid_samples

\* a finished split in which each of the three outcomes happened
C17_Witness ==
  \E s \in SplitIds :
    /\ SplitFinished(s)
    /\ reported[s].valid_samples > 0
    /\ reported[s].skipped_short_text > 0
    /\ reported[s].skipped_no_aspects > 0

\* the candidates of a text in stable order of start offset, stated by rank:
\* a candidate stands behind every candidate that starts earlier and behind
\* every candidate of the same start that the catalog yields earlier
StableByStart(all) ==
  LET rank(i) == Cardinality({j \in 1..Len(all) :
                    all[j][2] < all[i][2] \/ (all[j][2] = all[i][2] /\ j <= i)})
  IN  [r \in 1..Len(all) |-> all[CHOOSE i \in 1..Len(all) : rank(i) = r]]

\* is K the set of positions a greedy left-to-right filter keeps: position 1,
\* and each later position exactly if it starts at or after the end of the
\* last kept position before it
GreedyKept(cand, K) ==
  \A k \in 1..Len(cand) :
    (k \in K) <=>
      \/ k = 1
      \/ /\ {j \in K : j < k} # {}
         /\ LET last == CHOOSE j \in K : j < k /\ \A i \in K : i < k => i <= j
            IN  cand[k][2] >= cand[last][3]

\* the patterns of the catalog with a match that starts at offset s
PatternsAt(t, s) ==
  {k \in 1..Len(aspect_patterns) :
     \E m \in Range(FindIter(t, aspect_patterns[k], 0)) : m[2] = s}

\* C18: the matches returned are the candidates of all patterns, stable-sorted
\* by start offset, at the positions a greedy left-to-right filter keeps (the
\* first, then each that starts at or after the end of the last kept one);
\* nothing else is returned, and a returned match comes from the earliest
\* pattern that has a match at its start offset
C18_GreedyFilter ==
  pc = "tagging" =>
    LET cand == StableByStart(AllMatches(text))
    IN  /\ \E K \in SUBSET (1..Len(cand)) :
             /\ GreedyKept(cand, K)
             /\ aspects = [i \in 1..Cardinality(K) |-> cand[SeqOfSet(K)[i]]]
        /\ cand # <<>> => aspects # <<>> /\ aspects[1] = cand[1]
        /\ \A i \in 1..Len(aspects) :
             LET first == CHOOSE k \in PatternsAt(text, aspects[i][2]) :
                            \A j \in PatternsAt(text, aspects[i][2]) : k <= j
             IN  aspects[i] \in Range(FindIter(text, aspect_patterns[first], 0))

\* a sentence whose candidates arrive out of start order from the catalog and
\* of which the filter dropped one that overlaps a kept one
C18_Witness ==
  /\ pc = "tagging"
  /\ Len(aspects) >= 2
  /\ Len(AllMatches(text)) > Len(aspects)
  /\ \E i, j \in 1..Len(AllMatches(text)) :
       i < j /\ AllMatches(text)[j][2] < AllMatches(text)[i][2]
  /\ \E m \in Range(AllMatches(text)), a \in Range(aspects) :
       m \notin Range(aspects) /\ a[2] < m[2] /\ m[2] < a[3]

\* the position, among the whitespace-delimited tokens of t, of the token that
\* holds the character at offset c
TokenAt(t, c) ==
  Cardinality({i \in 1..(c + 1) : ~IsSpace(t[i]) /\ (i = 1 \/ IsSpace(t[i - 1]))})

\* the tokens of the span with the 20 tokens before its first token and the
\* 20 tokens after its last token, clamped to the sentence
SymmetricWindow(t, s, e) ==
  LET words == Split(t)
      first == TokenAt(t, s)
      last  == TokenAt(t, e - 1)
  IN  Join(SubSeq(words, Max(1, first - window_size), Min(Len(words), last + window_size)),
           <<" ">>)

\* C19: for every match the context the classifier reads is the span's tokens
\* with 20 tokens before its first token and 20 tokens after its last token,
\* clamped to the sentence, also when the match begins or ends inside a token
C19_SymmetricWindow ==
  \A k \in 1..Len(calls) :
    calls[k].aspect_start < calls[k].aspect_end =>
      ContextWindow(calls[k].text, calls[k].aspect_start, calls[k].aspect_end)
        = SymmetricWindow(calls[k].text, calls[k].aspect_start, calls[k].aspect_end)

\* the character offsets <<start, end>> of tokens i..j (counted from 1) of t
TokenSpan(t, i, j) ==
  LET starts == SeqOfSet({c \in 1..Len(t) : ~IsSpace(t[c]) /\ (c = 1 \/ IsSpace(t[c - 1]))})
      ends   == SeqOfSet({c \in 1..Len(t) : ~IsSpace(t[c]) /\ (c = Len(t) \/ IsSpace(t[c + 1]))})
  IN  <<starts[i] - 1, ends[j]>>

\* the last token of the tagged run that begins at token b
RunEnd(b) ==
  CHOOSE e \in b..Len(iob_tags) :
    /\ \A t \in (b + 1)..e : iob_tags[t] = TagI
    /\ e = Len(iob_tags) \/ iob_tags[e + 1] # TagI

\* C20: the label on a tagged token run is the mapped label the classifier
\* returns for that run, that is for the context window around the tokens
\* that carry the B-ASP/I-ASP tags, also when the surface form occurs more
\* than once in the sentence
C20_LabelOfTaggedRun ==
  pc = "tagging" =>
    \A b \in 1..Len(iob_tags) :
      iob_tags[b] = TagB =>
        LET span == TokenSpan(text, b, RunEnd(b))
        IN  sent_labels[b] =
              label_map[assign_sentiment_to_aspect(text, Lower(Slice(text, span[1], span[2])),
                                                   span[1], span[2])]

\* does some contiguous run of the tokens, joined by single spaces and
\* lowercased, equal the lowercased surface form
Aligned(toks, aspect_text) ==
  \E i \in 1..Len(toks) :
    \E j \in i..Len(toks) : Lower(Join(SubSeq(toks, i, j), <<" ">>)) = Lower(aspect_text)

\* C21: a step that processes a match without an equal token run changes no
\* tag and no label of the sentence, makes no classifier call, and moves on
\* to the next match of the sentence
C21_UnalignedMatchSkipped ==
  [][(/\ pc = "tagging"
      /\ aspect_idx <= Len(aspects)
      /\ ~Aligned(tokens, aspects[aspect_idx][1]))
     => /\ iob_tags' = iob_tags
        /\ sent_labels' = sent_labels
        /\ calls' = calls
        /\ pc' = "tagging"
        /\ aspects' = aspects
        /\ aspect_idx' = aspect_idx + 1]_vars

\* an unaligned match has been passed over in a sentence that carries a tag
\* of another match, and a later match has been processed after it
C21_Witness ==
  /\ pc = "tagging"
  /\ \E k \in 1..Len(aspects) :
       /\ k + 1 < aspect_idx
       /\ ~Aligned(tokens, aspects[k][1])
       /\ Aligned(tokens, aspects[k + 1][1])
  /\ \E t \in 1..Len(iob_tags) : iob_tags[t] = TagB

\* the block of a sentence without any tag: "token O 0" per token, then a
\* blank line
OutsideBlock(toks) ==
  Flatten([t \in 1..Len(toks) |-> toks[t] \o <<" ", "O", " ", "0", "\n">>]) \o <<"\n">>

\* a text of 20 characters or more with matches of which none has an equal
\* token run
NoMatchAligned(t) ==
  /\ Len(t) >= 20
  /\ extract_aspects_from_text(t) # <<>>
  /\ \A m \in Range(extract_aspects_from_text(t)) : ~Aligned(Split(t), m[1])

\* C22: a text of 20 characters or more whose matches all fail to align is
\* written to its split file as a block that is not empty, with every token
\* tagged O and labelled "0", and is counted in valid_samples, not in
\* skipped_no_aspects
C22_UnalignedSentenceWritten ==
  [][(/\ pc = "tagging"
      /\ aspect_idx > Len(aspects)
      /\ NoMatchAligned(text))
     => /\ Split(text) # <<>>
        /\ files'[split_idx] = files[split_idx] \o OutsideBlock(Split(text))
        /\ valid_samples' = valid_samples + 1
        /\ skipped_no_aspects' = skipped_no_aspects
        /\ skipped_short_text' = skipped_short_text]_vars

\* such a text has been through the loop and its block is the last of the
\* split file
C22_Witness ==
  /\ pc = "rows"
  /\ row_idx > 0
  /\ NoMatchAligned(CurrentRows[row_idx])
  /\ valid_samples > 0
  /\ written[split_idx] # <<>>
  /\ written[split_idx][Len(written[split_idx])] = Split(CurrentRows[row_idx])

\* the rows that end as sentence blocks, in the order given
ValidRows(rows) ==
  SelectSeq(rows, LAMBDA t : Len(t) >= 20 /\ extract_aspects_from_text(t) # <<>>)

\* the number of rows the loop of a finished split went through
RowsOf(s) ==
  reported[s].valid_samples + reported[s].skipped_short_text + reported[s].skipped_no_aspects

\* is the run one without down-sampling
NotSampled == Len(CleanAndFilter(csv)) <= sample_size

\* C23: without down-sampling the three splits are consecutive slices of the
\* cleaned and filtered input rows in input order, train before validation
\* before test, and the blocks of each split file stand in the order of their
\* source rows
C23_SplitByPosition ==
  (pc \in {"readme", "done", "parsed"} /\ NotSampled) =>
    LET kept == CleanAndFilter(csv)
        a    == RowsOf(1)
        b    == RowsOf(1) + RowsOf(2)
    IN  /\ b + RowsOf(3) = Len(kept)
        /\ parse_iob_file(files[1]) = ValidRows(SubSeq(kept, 1, a))
        /\ parse_iob_file(files[2]) = ValidRows(SubSeq(kept, a + 1, b))
        /\ parse_iob_file(files[3]) = ValidRows(SubSeq(kept, b + 1, Len(kept)))

\* a finished run without down-sampling in which every split file holds a
\* block and the train file holds two different ones
C23_Witness ==
  /\ pc \in {"readme", "done", "parsed"}
  /\ NotSampled
  /\ \A s \in SplitIds : reported[s].valid_samples > 0
  /\ \E i, j \in 1..Len(written[1]) : written[1][i] # written[1][j]

\* the pairs of positions exchanged in a context of n tokens: all pairs of a
\* short context, neighbouring pairs of a long one
Exchanges(n) ==
  {p \in (1..n) \X (1..n) : p[1] < p[2] /\ (n <= 6 \/ p[2] = p[1] + 1)}

\* toks with the tokens at positions p[1] and p[2] exchanged
Exchanged(toks, p) ==
  [t \in 1..Len(toks) |-> IF t = p[1] THEN toks[p[2]]
                          ELSE IF t = p[2] THEN toks[p[1]] ELSE toks[t]]

\* the tokens of the context a call has read
WindowTokens(call) ==
  Split(ContextWindow(call.text, call.aspect_start, call.aspect_end))

\* C24: the counts and the label of a call are those of every reordering of
\* the tokens of its context window (checked for the exchanges of two tokens,
\* which generate the reorderings)
C24_OrderIndependent ==
  \A k \in 1..Len(calls) :
    \A p \in Exchanges(Len(WindowTokens(calls[k]))) :
      LET context == Join(Exchanged(WindowTokens(calls[k]), p), <<" ">>)
          pos     == KeywordCount(positive_words, context)
          neg     == KeywordCount(negative_words, context)
      IN  /\ pos = calls[k].positive_count
          /\ neg = calls[k].negative_count
          /\ Vote(pos, neg) = calls[k].label

\* a call on a context of three different tokens that holds a positive and a
\* negative keyword
C24_Witness ==
  /\ pc = "tagging"
  /\ \E k \in 1..Len(calls) :
       /\ calls[k].positive_count > 0
       /\ calls[k].negative_count > 0
       /\ Cardinality(Range(WindowTokens(calls[k]))) >= 3

\* does the prediction for text t fail, by raising or by returning fewer
\* sentiments than aspects
FailsOn(t) ==
  \/ predictions[t].raises
  \/ Len(predictions[t].sentiment) < Len(predictions[t].aspect)

\* C25: the results of POST /batch_analyze on a JSON object with a list of
\* texts are one record per text, in the order of the list, each with its own
\* text; a text whose prediction fails has a record with an error field, and
\* every other text has the record it would have on its own
C25_OneRecordPerText ==
  (pc = "batch_responded" /\ data.kind = "object" /\ "texts" \in data.keys) =>
    LET results == response[1].body.results
    IN  /\ response[1].status = 200
        /\ Len(results) = Len(data.texts)
        /\ \A i \in 1..Len(data.texts) :
             /\ results[i].text = data.texts[i]
             /\ FailsOn(data.texts[i]) <=> "error" \in DOMAIN results[i]
             /\ ~FailsOn(data.texts[i]) =>
                  /\ HasAspectsShape(results[i])
                  /\ results[i] = analyze_text(data.texts[i], predictions[data.texts[i]])

\* a batch of three texts answered, with a failed text between two texts that
\* were analyzed
C25_Witness ==
  /\ pc = "batch_responded"
  /\ Len(data.texts) = 3
  /\ Len(response[1].body.results) = 3
  /\ "aspects" \in DOMAIN response[1].body.results[1]
  /\ "error" \in DOMAIN response[1].body.results[2]
  /\ "aspects" \in DOMAIN response[1].body.results[3]

\* does the span s..e of t begin at the start of a token and end at the end of
\* a token
CleanRun(t, s, e) ==
  /\ s < e
  /\ s = 0 \/ IsSpace(t[s])
  /\ e = Len(t) \/ IsSpace(t[e + 1])

\* C26: once all matches of a sentence are processed, every match that is a
\* whole token run at its own position has B-ASP on the first token of that
\* run, also when its surface form occurs several times in the sentence
C26_CleanOccurrenceTagged ==
  (pc = "tagging" /\ aspect_idx > Len(aspects)) =>
    \A k \in 1..Len(aspects) :
      CleanRun(text, aspects[k][2], aspects[k][3]) =>
        iob_tags[TokenAt(text, aspects[k][2])] = TagB

\* C27: with a predictor that answers a batch with one result per sentence in
\* order, the results gathered so far stand at the indexes of their sentences
\* during the batch loop, and behind the loop the result list is as long as
\* the sentence list: the result at index k is the placeholder of a failed
\* batch or the prediction for sentence k
C27_IndexCorrespondence ==
  /\ Len(all_results) = Min(batch_start, Len(sentences))
  /\ pc # "batches" => Len(all_results) = Len(sentences)
  /\ \A k \in 1..Len(all_results) :
       IF BatchRaises(BatchOf(k))
         THEN IsError(all_results[k])
         ELSE ~IsError(all_results[k]) /\ all_results[k].sentence = sentences[k]

\* the loop is over for a test set of two full batches and a last batch of
\* one sentence, the first batch failed and the other two succeeded
C27_Witness ==
  /\ pc = "results"
  /\ Len(sentences) = 2 * batch_size + 1
  /\ IsError(all_results[1])
  /\ ~IsError(all_results[batch_size + 1])
  /\ ~IsError(all_results[2 * batch_size + 1])

\* C28: after a finished evaluate_model run on a filesystem without an
\* earlier report, analyze_errors finds a report and what it loads is the
\* report that the run saved
C28_LoadsSavedReport ==
  (pc \in {"analyzed", "FileNotFoundError"} /\ earlier_report = <<>>) =>
    /\ pc = "analyzed"
    /\ evaluation_data = report

\* the entries of the log that launch a script
Launches == SelectSeq(run_log, LAMBDA ev : ev.event = "launched")

\* did the script of log entry k fail: it ended with an exit code other than
\* 0, or launching it raised
FailedAt(k) ==
  \/ run_log[k].event = "exception"
  \/ run_log[k].event = "exited" /\ run_log[k].returncode # 0

\* C29: the scripts are launched in the order of the list, each after the one
\* before it has ended with exit code 0, and once a script has failed (exit
\* code other than 0, or an exception on launching it) nothing is launched
C29_InOrderStopAtFailure ==
  /\ \A n \in 1..Len(Launches) : Launches[n].script = scripts[n]
  /\ \A k \in 1..Len(run_log) :
       run_log[k].event = "launched" =>
         \/ k = 1
         \/ /\ run_log[k - 1].event = "exited"
            /\ run_log[k - 1].returncode = 0
            /\ \E n \in 1..(Len(scripts) - 1) :
                 run_log[k - 1].script = scripts[n] /\ run_log[k].script = scripts[n + 1]
  /\ \A k \in 1..Len(run_log) : FailedAt(k) => k = Len(run_log)
  /\ (pc = "completed" /\ \A k \in 1..Len(run_log) : ~FailedAt(k)) =>
       Len(Launches) = Len(scripts)

\* main has ended after two scripts that succeeded and a third that ended
\* with an exit code other than 0
C29_Witness ==
  /\ pc = "completed"
  /\ Len(Launches) = 3
  /\ run_log[Len(run_log)].event = "exited"
  /\ run_log[Len(run_log)].returncode # 0
  /\ cwd = original_cwd

\* the entries of the listing that are directories
ListedDirs == {listing[i] : i \in {j \in 1..Len(listing) : listing[j].is_dir}}

\* C30: without a checkpoint path the constructor raises FileNotFoundError
\* exactly when the checkpoints directory is missing or holds no subdirectory;
\* otherwise the directory it hands to the loader is a subdirectory whose
\* modification time no other subdirectory exceeds, whatever the names and
\* the scores in them, and it is loaded when it holds the model files
C30_LatestSubdirectory ==
  pc = "constructed" =>
    /\ outcome = "FileNotFoundError" <=> (~checkpoints_exists \/ ListedDirs = {})
    /\ outcome # "FileNotFoundError" =>
         \E d \in ListedDirs :
           /\ best_checkpoint = d.name
           /\ \A o \in ListedDirs : o.mtime <= d.mtime
           /\ outcome = (IF d.artifacts THEN "loaded" ELSE "RuntimeError")

\* a directory without the name prefix and without a score was loaded though
\* a prefixed directory with a score, and a newer plain file, were listed
C30_Witness ==
  /\ pc = "constructed"
  /\ outcome = "loaded"
  /\ ~StartsWith(best_checkpoint, CustomDatasetPrefix)
  /\ get_apc_f1_from_name(best_checkpoint) = 0
  /\ \E i \in 1..Len(listing) :
       /\ listing[i].is_dir
       /\ StartsWith(listing[i].name, CustomDatasetPrefix)
       /\ get_apc_f1_from_name(listing[i].name) > 0
  /\ \E i \in 1..Len(listing) : ~listing[i].is_dir
  /\ listing[1].name # best_checkpoint

=============================================================================
